---- MODULE Spec2Model ----
(***************************************************************************)
(* A mesh of peer nodes (cmd/peer.go in its scheduling variant): every     *)
(* node keeps a Local Snapshot fed by its collectors, a Cluster View fed   *)
(* by its own gossip tick and by the Push handler, and serves SubmitJob by *)
(* running scheduleJob, which executes the job locally or forwards it.     *)
(*                                                                         *)
(* Percentages are the float64 values of the source; all the values used   *)
(* here are small whole numbers, on which float64 arithmetic is exact.     *)
(* Time is the wall clock in whole seconds.                                *)
(***************************************************************************)
EXTENDS Integers, Sequences, FiniteSets, TLC

\* ------------------------------------------------------------------ bounds

\* The wall clock stops advancing here (ages 0..MaxTime are observed).
MaxTime == 6
\* Longest forwarding chain of one job (SubmitJob invocations).
MaxHops == 4
\* Collector values delivered to the Local Snapshots over one behaviour.
MaxUpdates == 2
\* Ticks of the thermal poller over one behaviour.
MaxPolls == 3

\* ------------------------------------------------------- program constants

\* NodeTTL = 4 * time.Second
NodeTTL == 4
\* Thresholds of the capacity check: Max 95% CPU, Max 90% MEM.
CpuLimit == 95
MemLimit == 90
\* UpdateCPU clamps at 95.
CpuClamp == 95
\* sendToPeer: context.WithTimeout(..., 2*time.Second)
PushTimeout == 2
\* runPeer: time.NewTicker(3 * time.Second)
GossipInterval == 3
\* pollThermalStats: the thresholds of HOT and WARM, in degrees.
HotAbove == 80
WarmAbove == 60
\* typedef unsigned int u32: 2^32 = 4294967 * 1000 + 296.
U32Thousands == 4294967
U32Units == 296

\* The addresses of the nodes of the mesh.
Nodes == {"A", "B"}

\* Workload profiles of the run command.
IMG_RESIZE == [Name |-> "IMG_RESIZE", ReqCpu |-> 70, ReqMem |-> 10]
DATA_ETL == [Name |-> "DATA_ETL", ReqCpu |-> 10, ReqMem |-> 30]
Jobs == {IMG_RESIZE}

\* Values the collectors deliver.
CpuInputs == {99}
MemInputs == {80}
TempReadings ==
  { [TempC |-> 70, Status |-> "WARM", Zone |-> "cpu-thermal"] }

VARIABLES
  now,        \* wall clock, seconds
  localSnap,  \* node -> MetricsSnapshot of cmd (the Local Snapshot)
  cluster,    \* node -> globalCluster.Metrics, a map key -> NodeData
  pushes,     \* sendToPeer goroutines in flight: [from, to, data]
  job,        \* the JobRequest submitted by the run command, or NoJob
  inv,        \* the SubmitJob invocations of the job, in forwarding order
  updates,    \* collector values delivered so far
  nextTick,   \* node -> the time at which its gossip ticker fires next
  peers,      \* node -> the value of its --peers flag (var targetPeers)
  pushAck,    \* node -> the Ack its Push handler returned last
  mu,         \* MetricsSnapshot.mu of one node: the holders of the RWMutex
  proc,       \* the goroutines of runPeer that use the Local Snapshot
  fed,        \* the values passed to each updater so far
  tracepoint, \* the last thermal_temperature event of the kernel
  bpfMaps,    \* the thermal BPF maps: zone_count, zone_temps, zone_names
  emitted,    \* the last TempReading sent on the thermal stream
  polls,      \* ticks of pollThermalStats served so far
  tempSent,   \* number of values sent on the thermal stream
  tempChan,   \* the value the consumer of the thermal stream has received
              \* and not yet stored (the stream is unbuffered)
  cpuUsage,   \* the BPF map cpu_usage: pid -> cumulative CPU time
  lastCPU,    \* pollCPUStats: lastCPU, pid -> the counter seen at the last tick
  cpuOut,     \* the CPU stream: values sent so far, the last one, closed or not
  cpuClean,   \* invocations of the CPU collector's cleanup so far
  startTimes, \* the BPF map start_times: pid -> the time it was switched in
  onCpu,      \* core -> the pid that runs on it, 0 for the idle process
  memStall,   \* the BPF maps of the memory collector: mem_stall_ns[0], the
              \* cumulative reclaim stall time, and start_times
  memLast,    \* pollMemStats: last
  memOut,     \* the memory stream: values sent so far, the last one, and the
              \* value its consumer has received and not yet stored
  runCmd,     \* the process of the run command: exited or not, its exit
              \* code, and the last line it printed
  boot        \* node -> the process of its peer command: where it is, whether
              \* its server accepts calls, its exit code, what has failed
              \* and what it has printed

\* The variables of the mesh, of the Local Snapshot's goroutines and of the
\* thermal collector.
meshVars ==
  <<now, localSnap, cluster, pushes, job, inv, updates, nextTick, peers, pushAck>>
snapVars == <<mu, proc, fed>>
thermVars == <<tracepoint, bpfMaps, emitted, polls, tempSent, tempChan>>
\* The variables of the CPU and memory collectors and of the two commands.
cpuVars == <<cpuUsage, lastCPU, cpuOut, cpuClean, startTimes, onCpu>>
memVars == <<memStall, memLast, memOut>>
cmdVars == <<runCmd, boot>>
prodVars == <<cpuVars, memVars, cmdVars>>
vars == <<meshVars, snapVars, thermVars, prodVars>>

\* var targetPeers []string, as node n was started.
targetPeers(n) == peers[n]

NoJob == [Name |-> "", ReqCpu |-> 0, ReqMem |-> 0]
NoAck == [Msg |-> "", ForwardedTo |-> ""]
EmptyMap == [k \in {} |-> 0]

\* ------------------------------------------------------------ Local Snapshot

\* var localSnap MetricsSnapshot: the zero value.
ZeroSnapshot ==
  [CPUPercent |-> 0, MemPercent |-> 0, TempC |-> 0, TempStatus |-> "", ZoneName |-> ""]

\* Variant: the value is stored as it comes.
UpdateCPUNoClamp(m, v) == [m EXCEPT !.CPUPercent = v]

\* MetricsSnapshot.UpdateCPU: hard clamp at 95.
UpdateCPU(m, v) == [m EXCEPT !.CPUPercent = IF v > CpuClamp THEN CpuClamp ELSE v]

\* Variant: the memory value lands in the CPU field.
UpdateMemIntoCPU(m, v) == [m EXCEPT !.CPUPercent = v]

\* MetricsSnapshot.UpdateMem
UpdateMem(m, v) == [m EXCEPT !.MemPercent = v]

\* MetricsSnapshot.UpdateTemp
UpdateTemp(m, r) ==
  [m EXCEPT !.TempC = r.TempC, !.TempStatus = r.Status, !.ZoneName = r.Zone]

\* MetricsSnapshot.Read: a copy by value.
Read(m) ==
  [CPUPercent |-> m.CPUPercent, MemPercent |-> m.MemPercent, TempC |-> m.TempC,
   TempStatus |-> m.TempStatus, ZoneName |-> m.ZoneName]

\* The pb.MetricsSnapshot built from a Read in the ticker case of runPeer.
protoData(current) ==
  [Cpu |-> current.CPUPercent, Mem |-> current.MemPercent, TempC |-> current.TempC,
   TempStatus |-> current.TempStatus, Zone |-> current.ZoneName]

\* -------------------------------------------------------------- Cluster View

\* Variant: an entry that exists keeps the time at which it was first seen.
UpdateKeepFirstSeen(metrics, ip, snap, t) ==
  [k \in DOMAIN metrics \cup {ip} |->
     IF k # ip THEN metrics[k]
     ELSE [Snapshot |-> snap,
           LastSeen |-> IF ip \in DOMAIN metrics THEN metrics[ip].LastSeen ELSE t]]

\* Variant: the entries older than NodeTTL are dropped on every update.
UpdateDropStale(metrics, ip, snap, t) ==
  [k \in {ip} \cup { x \in DOMAIN metrics : t - metrics[x].LastSeen <= NodeTTL } |->
     IF k = ip THEN [Snapshot |-> snap, LastSeen |-> t] ELSE metrics[k]]

\* ClusterState.Update at wall time t.
Update(metrics, ip, snap, t) ==
  [k \in DOMAIN metrics \cup {ip} |->
     IF k = ip THEN [Snapshot |-> snap, LastSeen |-> t] ELSE metrics[k]]

\* ClusterState.Snapshot: a copy of the map.
Snapshot(metrics) == [k \in DOMAIN metrics |-> metrics[k]]

\* displayCluster at wall time t: one row per key of the copy of the view,
\* with the status it prints (age > NodeTTL: OFFLINE and the age).
displayCluster(view, t) ==
  [ip \in DOMAIN view |->
     IF t - view[ip].LastSeen > NodeTTL
     THEN [status |-> "OFFLINE", age |-> t - view[ip].LastSeen]
     ELSE [status |-> "ONLINE", age |-> 0]]

\* ------------------------------------------------------------------ scheduler

\* Variant: an entry exactly NodeTTL old is dropped too.
LiveBelowTTL(data, t) == t - data.LastSeen < NodeTTL

\* Variant: an entry is dropped when it is older than half of NodeTTL.
LiveHalfTTL(data, t) == ~(t - data.LastSeen > NodeTTL \div 2)

\* A. Check Liveness: time.Since(data.LastSeen) > NodeTTL drops the entry.
Live(data, t) == ~(t - data.LastSeen > NodeTTL)

\* Variant: the CPU threshold itself is admitted.
cpuOkInclusive(m, j) == (m.Cpu + j.ReqCpu) <= CpuLimit

\* B. Check Resource Capacity.
cpuOk(m, j) == (m.Cpu + j.ReqCpu) < CpuLimit
memOk(m, j) == (m.Mem + j.ReqMem) < MemLimit

\* The entries appended to validCandidates by the filter loop run at time t.
validCandidates(view, j, t) ==
  { ip \in DOMAIN view :
      /\ Live(view[ip], t)
      /\ cpuOk(view[ip].Snapshot, j)
      /\ memOk(view[ip].Snapshot, j) }

\* Variant: only the status SAFE is thermally safe.
safeCandidatesOnlySAFE(view, j, t) ==
  { ip \in validCandidates(view, j, t) : view[ip].Snapshot.TempStatus = "SAFE" }

\* C. Check Thermal Safety: SAFE or empty.
safeCandidates(view, j, t) ==
  { ip \in validCandidates(view, j, t) :
      view[ip].Snapshot.TempStatus = "SAFE" \/ view[ip].Snapshot.TempStatus = "" }

\* Variant: the safe candidates are not preferred.
finalPoolAllValid(valid, safe) == valid

\* 4. Selection Strategy: Thermal Priority.
finalPool(valid, safe) == IF safe # {} THEN safe ELSE valid

\* Variant: the random draw stands.
selectedIPDrawOnly(pool, draw) == draw

\* 5. The random draw, then the localhost override.
selectedIP(pool, draw) == IF "localhost" \in pool THEN "localhost" ELSE draw

\* Variant: the remote's ForwardedTo is passed on as it is.
actualRunnerVerbatim(ip, forwardedTo) == forwardedTo

\* forwardJobToPeer: "localhost" -> address of the peer.
actualRunner(ip, forwardedTo) == IF forwardedTo = "localhost" THEN ip ELSE forwardedTo

\* ------------------------------------------------------ SubmitJob invocations

Terminal == {"REJECTED", "DONE", "EXEC_FAILED", "FORWARD_FAILED"}

\* Variant: the Ack of a success does not name the runner.
SubmitJobAckNoRunner(target, err) ==
  IF err THEN [Msg |-> "Failed", ForwardedTo |-> ""]
  ELSE [Msg |-> "Completed Successfully", ForwardedTo |-> ""]

\* The Ack built by peerServer.SubmitJob from what scheduleJob returned.
SubmitJobAck(target, err) ==
  IF err THEN [Msg |-> "Failed", ForwardedTo |-> ""]
  ELSE [Msg |-> "Completed Successfully", ForwardedTo |-> target]

\* A SubmitJob handler that has just been entered on node n.
Received(n) ==
  [node |-> n, pc |-> "RECEIVED", view |-> EmptyMap, valid |-> {}, safe |-> {},
   pool |-> {}, sel |-> "", step |-> "", container |-> "none",
   execCalls |-> 0, fwdCalls |-> 0, resp |-> NoAck,
   target |-> "", err |-> FALSE, ack |-> NoAck, deadline |-> 0]

\* scheduleJob returns (target, err) and SubmitJob returns its Ack.
Return(r, state, target, err) ==
  [r EXCEPT !.pc = state, !.target = target, !.err = err,
            !.ack = SubmitJobAck(target, err)]

\* scheduleJob, 6. Execution: the local branch calls executeDockerContainer,
\* the other branch calls forwardJobToPeer.
Dispatch(r) ==
  IF r.sel = "localhost"
  THEN [r EXCEPT !.pc = "EXECUTING", !.step = "client", !.execCalls = @ + 1]
  ELSE [r EXCEPT !.pc = "DIALING", !.fwdCalls = @ + 1]

\* Variant: with no candidate the job is run locally all the same.
NoCandidatesRunsLocally(r) == Dispatch([r EXCEPT !.sel = "localhost"])

\* scheduleJob, len(validCandidates) == 0: the error return.
NoCandidates(r) == Return(r, "REJECTED", "", TRUE)

\* scheduleJob from the filter loop to the dispatch, on the copy r.view, at
\* time t, with the random draw.
Decide(r, j, t, draw) ==
  LET valid == validCandidates(r.view, j, t)
      safe == safeCandidates(r.view, j, t)
      pool == finalPool(valid, safe)
  IN  Dispatch([r EXCEPT !.valid = valid, !.safe = safe, !.pool = pool,
                         !.sel = selectedIP(pool, draw)])

\* Variant: the container is started before it is created.
NextStepStartFirst(step) ==
  CASE step = "client" -> "pull"
    [] step = "pull" -> "start"
    [] step = "start" -> "create"
    [] step = "create" -> "wait"
    [] OTHER -> ""

\* executeDockerContainer: the order of its calls.
NextStep(step) ==
  CASE step = "client" -> "pull"
    [] step = "pull" -> "create"
    [] step = "create" -> "start"
    [] step = "start" -> "wait"
    [] OTHER -> ""

\* The state of the container after a successful step.
ContainerAfter(step, c) ==
  CASE step = "create" -> "created"
    [] step = "start" -> "running"
    [] step = "wait" -> "exited"
    [] OTHER -> c

\* executeDockerContainer, one call of the runtime API succeeding or failing,
\* and the return of scheduleJob when it was the last one.
ExecAdvance(r, ok) ==
  IF ~ok THEN Return(r, "EXEC_FAILED", "localhost", TRUE)
  ELSE IF r.step = "wait"
       THEN Return([r EXCEPT !.container = ContainerAfter(r.step, r.container)],
                   "DONE", "localhost", FALSE)
       ELSE [r EXCEPT !.step = NextStep(r.step),
                      !.container = ContainerAfter(r.step, r.container)]

\* Variant: a failed forward falls back to local execution.
ForwardErrorRunsLocally(r) ==
  [r EXCEPT !.pc = "EXECUTING", !.step = "client", !.execCalls = @ + 1]

\* Variant: a failed forward is dialled again.
ForwardErrorRedials(r) == [r EXCEPT !.pc = "DIALING", !.fwdCalls = @ + 1]

\* forwardJobToPeer: an error of DialContext or of client.SubmitJob.
ForwardError(r) == Return(r, "FORWARD_FAILED", "", TRUE)

\* Variant: the call returns without waiting for the remote handler.
RemoteReturnedAtOnce(child) == TRUE

\* forwardJobToPeer: client.SubmitJob has a reply once the remote handler
\* has returned.
RemoteReturned(child) == child.pc \in Terminal

\* forwardJobToPeer after client.SubmitJob returned the remote handler's
\* (Ack, error).
ForwardResult(r, child) ==
  IF child.err THEN ForwardError(r)
  ELSE Return([r EXCEPT !.resp = child.ack], "DONE",
              actualRunner(r.sel, child.ack.ForwardedTo), FALSE)

\* --------------------------------------------------------------------- Init

\* The goroutines of runPeer that use the Local Snapshot: the three stream
\* consumers and the gossip loop, each at the top of its loop; nobody holds
\* the mutex and no updater has been called.
Goroutines == {"cpu", "mem", "temp", "tick"}
NoReading == [TempC |-> 0, Status |-> "", Zone |-> ""]
SnapIdle ==
  /\ mu = [writer |-> "", readers |-> {}]
  /\ proc = [cpu |-> [pc |-> "recv", v |-> 0],
             mem |-> [pc |-> "recv", v |-> 0],
             temp |-> [pc |-> "recv", r |-> NoReading],
             tick |-> [pc |-> "wait", current |-> ZeroSnapshot]]
  /\ fed = [CPU |-> {}, Mem |-> {}, Temp |-> {}]

\* A u32 holding the int x of the kernel, by its digits in base 1000 (the
\* values above 2^31 do not fit the integers of the checker): 2^32 + x for
\* x < 0, where 2^32 = U32Thousands * 1000 + U32Units.
ToU32(x) ==
  IF x >= 0 THEN [k |-> x \div 1000, u |-> x % 1000]
  ELSE [k |-> U32Thousands + ((x + U32Units) \div 1000), u |-> (x + U32Units) % 1000]

\* The thermal maps before the probe has seen a zone; nothing emitted yet.
ThermIdle ==
  /\ tracepoint = [temp |-> 0, zone |-> ""]
  /\ bpfMaps = [zoneCount |-> 0, tempMC |-> ToU32(0), name |-> ""]
  /\ emitted = [TempC |-> [whole |-> 0, frac |-> 0], Status |-> "", Zone |-> ""]
  /\ polls = 0
  /\ tempSent = 0
  /\ tempChan = <<>>

\* The CPU and memory collectors just started, with empty maps and nothing
\* sent; the run command not invoked; the peer commands up and serving.
\* A peer command that has come through its start-up and is in its loop.
Started ==
  [pc |-> "loop", serving |-> TRUE, code |-> 0, failed |-> {}, out |-> {},
   cleaned |-> [c \in {"CPU", "MEM", "TEMP"} |-> 0]]

\* runtime.GOMAXPROCS(0)
NumCPUs == 2

CollectorsIdle ==
  /\ cpuUsage = EmptyMap
  /\ lastCPU = EmptyMap
  /\ cpuOut = [sent |-> 0, v |-> 0, closed |-> FALSE]
  /\ cpuClean = 0
  /\ startTimes = EmptyMap
  /\ onCpu = [c \in 1..NumCPUs |-> 0]
  /\ memStall = [total |-> 0, start |-> EmptyMap]
  /\ memLast = 0
  /\ memOut = [sent |-> 0, v |-> 0, recv |-> <<>>]

ProdIdle ==
  /\ CollectorsIdle
  /\ runCmd = [exited |-> FALSE, code |-> 0, out |-> ""]
  /\ boot = [n \in Nodes |-> Started]

Init ==
  /\ now = 0
  /\ localSnap = [n \in Nodes |-> ZeroSnapshot]
  /\ cluster = [n \in Nodes |-> EmptyMap]
  /\ pushes = {}
  /\ job = NoJob
  /\ inv = <<>>
  /\ updates = 0
  /\ nextTick = [n \in Nodes |-> GossipInterval]
  /\ peers = [n \in Nodes |-> Nodes \ {n}]
  /\ pushAck = [n \in Nodes |-> NoAck]
  /\ SnapIdle
  /\ ThermIdle
  /\ ProdIdle

\* ------------------------------------------------------------------ actions

\* Variant: sendToPeer has no deadline, and a push that gets no answer stays.
AdvanceTimeNoPushDeadline ==
  /\ now < MaxTime
  /\ \A n \in Nodes : nextTick[n] > now
  /\ now' = now + 1
  /\ UNCHANGED <<peers, pushAck, snapVars, thermVars, prodVars, localSnap, cluster, pushes, job, inv, updates, nextTick>>

\* The wall clock advances by one second. The ticker of every node fires
\* every GossipInterval and is served before the second is over, and a
\* sendToPeer goroutine has ended when its PushTimeout is over.
AdvanceTime ==
  /\ now < MaxTime
  /\ \A n \in Nodes : nextTick[n] > now
  /\ \A m \in pushes : now - m.sent < PushTimeout
  /\ now' = now + 1
  /\ UNCHANGED <<peers, pushAck, snapVars, thermVars, prodVars, localSnap, cluster, pushes, job, inv, updates, nextTick>>

\* runPeer: for v := range cpuStream { localSnap.UpdateCPU(v) }
CpuSample(n, v) ==
  /\ updates < MaxUpdates
  /\ localSnap' = [localSnap EXCEPT ![n] = UpdateCPU(@, v)]
  /\ updates' = updates + 1
  /\ UNCHANGED <<peers, pushAck, snapVars, thermVars, prodVars, now, cluster, pushes, job, inv, nextTick>>

\* runPeer: for v := range memStream { localSnap.UpdateMem(v) }
MemSample(n, v) ==
  /\ updates < MaxUpdates
  /\ localSnap' = [localSnap EXCEPT ![n] = UpdateMem(@, v)]
  /\ updates' = updates + 1
  /\ UNCHANGED <<peers, pushAck, snapVars, thermVars, prodVars, now, cluster, pushes, job, inv, nextTick>>

\* runPeer: for v := range tempStream { localSnap.UpdateTemp(v) }
TempSample(n, r) ==
  /\ updates < MaxUpdates
  /\ localSnap' = [localSnap EXCEPT ![n] = UpdateTemp(@, r)]
  /\ updates' = updates + 1
  /\ UNCHANGED <<peers, pushAck, snapVars, thermVars, prodVars, now, cluster, pushes, job, inv, nextTick>>

\* strings.TrimSpace on the addresses used here: an address is blank or has
\* no surrounding white space.
TrimSpace(ip) == IF ip \in {"", " "} THEN "" ELSE ip

\* Variant: every entry of the list gets a goroutine.
broadcastMetricsAll(ps) == ps

\* broadcastMetrics: the peers that get a sendToPeer goroutine.
broadcastMetrics(ps) == { ip \in ps : TrimSpace(ip) # "" }

\* runPeer, case <-ticker.C: Read, Update("localhost"), broadcastMetrics
\* (one sendToPeer goroutine per peer). displayCluster only prints.
GossipTick(n) ==
  /\ nextTick[n] = now
  /\ LET data == protoData(Read(localSnap[n]))
     IN  /\ cluster' = [cluster EXCEPT ![n] = Update(@, "localhost", data, now)]
         /\ pushes' = pushes \cup
              { [from |-> n, to |-> p, data |-> data, sent |-> now] : p \in broadcastMetrics(targetPeers(n)) }
  /\ nextTick' = [nextTick EXCEPT ![n] = now + GossipInterval]
  /\ UNCHANGED <<peers, pushAck, snapVars, thermVars, prodVars, now, localSnap, job, inv, updates>>

\* peerServer.Push on node m.to, when a node runs at that address: the
\* sender's host is the key and the reply is Ack{Msg: "OK"}. (Over TCP the
\* peer address is always present and splits into host and port, so the key
\* "unknown" is not produced.)
Push(m) ==
  /\ m \in pushes
  /\ m.to \in DOMAIN cluster
  /\ cluster' = [cluster EXCEPT ![m.to] = Update(@, m.from, m.data, now)]
  /\ pushAck' = [pushAck EXCEPT ![m.to] = [Msg |-> "OK", ForwardedTo |-> ""]]
  /\ pushes' = pushes \ {m}
  /\ UNCHANGED <<peers, snapVars, thermVars, prodVars, now, localSnap, job, inv, updates, nextTick>>

\* sendToPeer: the dial or the call fails or times out; the error is dropped.
PushFail(m) ==
  /\ m \in pushes
  /\ pushes' = pushes \ {m}
  /\ UNCHANGED <<peers, pushAck, snapVars, thermVars, prodVars, now, localSnap, cluster, job, inv, updates, nextTick>>

\* runJob: the run command submits one workload to the node on its host.
runJob(n, j) ==
  /\ job = NoJob
  /\ job' = j
  /\ inv' = <<Received(n)>>
  /\ UNCHANGED <<peers, pushAck, snapVars, thermVars, prodVars, now, localSnap, cluster, pushes, updates, nextTick>>

\* Variant: scheduleJob refreshes the node's own entry before it copies.
TakeViewRefreshing(i) ==
  /\ i \in DOMAIN inv
  /\ inv[i].pc = "RECEIVED"
  /\ cluster' = [cluster EXCEPT ![inv[i].node] =
                   Update(@, "localhost", protoData(Read(localSnap[inv[i].node])), now)]
  /\ inv' = [inv EXCEPT ![i] = [@ EXCEPT !.pc = "FILTERING",
                                         !.view = Snapshot(cluster'[inv[i].node])]]
  /\ UNCHANGED <<peers, pushAck, snapVars, thermVars, prodVars, now, localSnap, pushes, job, updates, nextTick>>

\* scheduleJob, 1. Get current cluster view.
TakeView(i) ==
  /\ i \in DOMAIN inv
  /\ inv[i].pc = "RECEIVED"
  /\ inv' = [inv EXCEPT ![i] = [@ EXCEPT !.pc = "FILTERING",
                                         !.view = Snapshot(cluster[inv[i].node])]]
  /\ UNCHANGED <<peers, pushAck, snapVars, thermVars, prodVars, now, localSnap, cluster, pushes, job, updates, nextTick>>

\* Variant: the filter loop ranges over globalCluster.Metrics itself, as it
\* is when the loop runs, and not over the copy taken at the start.
ScheduleOnLiveMap(i) ==
  /\ i \in DOMAIN inv
  /\ inv[i].pc = "FILTERING"
  /\ LET r == [inv[i] EXCEPT !.view = cluster[inv[i].node]]
         valid == validCandidates(r.view, job, now)
         pool == finalPool(valid, safeCandidates(r.view, job, now))
     IN  IF valid = {}
         THEN inv' = [inv EXCEPT ![i] = NoCandidates([r EXCEPT !.view = EmptyMap])]
         ELSE \E draw \in pool :
                inv' = [inv EXCEPT ![i] = [Decide(r, job, now, draw) EXCEPT !.view = EmptyMap]]
  /\ UNCHANGED <<peers, pushAck, snapVars, thermVars, prodVars, now, localSnap, cluster, pushes, job, updates, nextTick>>

\* Variant: the node selected is charged with the request in the view of the
\* scheduling node, so that the next decision sees the reservation.
ScheduleReserving(i) ==
  /\ i \in DOMAIN inv
  /\ inv[i].pc = "FILTERING"
  /\ LET r == [inv[i] EXCEPT !.view = Snapshot(cluster[inv[i].node])]
         valid == validCandidates(r.view, job, now)
         pool == finalPool(valid, safeCandidates(r.view, job, now))
     IN  IF valid = {}
         THEN /\ inv' = [inv EXCEPT ![i] = NoCandidates([r EXCEPT !.view = EmptyMap])]
              /\ cluster' = cluster
         ELSE \E draw \in pool :
                /\ inv' = [inv EXCEPT ![i] = [Decide(r, job, now, draw) EXCEPT !.view = EmptyMap]]
                /\ cluster' = [cluster EXCEPT ![r.node][selectedIP(pool, draw)].Snapshot.Cpu =
                                                 @ + job.ReqCpu]
  /\ UNCHANGED <<peers, pushAck, snapVars, thermVars, prodVars, now, localSnap, pushes, job, updates, nextTick>>

\* scheduleJob, 3.-6.: filter, pool choice, selection, dispatch.
Schedule(i) ==
  /\ i \in DOMAIN inv
  /\ inv[i].pc = "FILTERING"
  /\ LET r == inv[i]
         valid == validCandidates(r.view, job, now)
         pool == finalPool(valid, safeCandidates(r.view, job, now))
     IN  IF valid = {}
         THEN inv' = [inv EXCEPT ![i] = NoCandidates([r EXCEPT !.view = EmptyMap])]
         ELSE \E draw \in pool :
                inv' = [inv EXCEPT ![i] = [Decide(r, job, now, draw) EXCEPT !.view = EmptyMap]]
  /\ UNCHANGED <<peers, pushAck, snapVars, thermVars, prodVars, now, localSnap, cluster, pushes, job, updates, nextTick>>

\* executeDockerContainer: one call of the runtime API returns.
ExecStep(i, ok) ==
  /\ i \in DOMAIN inv
  /\ inv[i].pc = "EXECUTING"
  /\ inv' = [inv EXCEPT ![i] = ExecAdvance(@, ok)]
  /\ UNCHANGED <<peers, pushAck, snapVars, thermVars, prodVars, now, localSnap, cluster, pushes, job, updates, nextTick>>

\* forwardJobToPeer: grpc.DialContext fails.
DialFail(i) ==
  /\ i \in DOMAIN inv
  /\ inv[i].pc = "DIALING"
  /\ inv' = [inv EXCEPT ![i] = ForwardError(@)]
  /\ UNCHANGED <<peers, pushAck, snapVars, thermVars, prodVars, now, localSnap, cluster, pushes, job, updates, nextTick>>

\* Variant: the job carries the nodes it has visited and is not sent to one
\* of them again.
ForwardSendUnvisited(i) ==
  /\ i \in DOMAIN inv
  /\ inv[i].pc = "DIALING"
  /\ inv[i].sel \in Nodes
  /\ \A k \in 1..i : inv[k].node # inv[i].sel
  /\ Len(inv) < MaxHops
  /\ inv' = Append([inv EXCEPT ![i] = [@ EXCEPT !.pc = "FORWARDING"]],
                   Received(inv[i].sel))
  /\ UNCHANGED <<peers, pushAck, snapVars, thermVars, prodVars, now, localSnap, cluster, pushes, job, updates, nextTick>>

\* forwardJobToPeer: the dial succeeds and client.SubmitJob reaches the
\* SubmitJob handler of the selected peer.
ForwardSend(i) ==
  /\ i \in DOMAIN inv
  /\ inv[i].pc = "DIALING"
  /\ inv[i].sel \in Nodes
  /\ Len(inv) < MaxHops
  /\ inv' = Append([inv EXCEPT ![i] = [@ EXCEPT !.pc = "FORWARDING"]],
                   Received(inv[i].sel))
  /\ UNCHANGED <<peers, pushAck, snapVars, thermVars, prodVars, now, localSnap, cluster, pushes, job, updates, nextTick>>

\* forwardJobToPeer: client.SubmitJob returns the remote handler's result.
ForwardReply(i) ==
  /\ i \in DOMAIN inv
  /\ i + 1 \in DOMAIN inv
  /\ inv[i].pc = "FORWARDING"
  /\ RemoteReturned(inv[i + 1])
  /\ inv' = [inv EXCEPT ![i] = ForwardResult(@, inv[i + 1])]
  /\ UNCHANGED <<peers, pushAck, snapVars, thermVars, prodVars, now, localSnap, cluster, pushes, job, updates, nextTick>>

\* Variant: the end of the call cancels the remote handler, which returns
\* with an error and stops its container.
ForwardTimeoutCancels(i) ==
  /\ i \in DOMAIN inv
  /\ i + 1 \in DOMAIN inv
  /\ inv[i].pc = "FORWARDING"
  /\ inv' = [inv EXCEPT ![i] = ForwardError(@),
                        ![i + 1] = IF @.pc \in Terminal THEN @
                                   ELSE Return([@ EXCEPT !.container = "none"],
                                               "EXEC_FAILED", "localhost", TRUE)]
  /\ UNCHANGED <<peers, pushAck, snapVars, thermVars, prodVars, now, localSnap, cluster, pushes, job, updates, nextTick>>

\* forwardJobToPeer: the context deadline expires, or the connection breaks,
\* while client.SubmitJob waits; the remote handler is not stopped.
ForwardTimeout(i) ==
  /\ i \in DOMAIN inv
  /\ inv[i].pc = "FORWARDING"
  /\ inv' = [inv EXCEPT ![i] = ForwardError(@)]
  /\ UNCHANGED <<peers, pushAck, snapVars, thermVars, prodVars, now, localSnap, cluster, pushes, job, updates, nextTick>>

Next ==
  \/ AdvanceTime
  \/ \E n \in Nodes, v \in CpuInputs : CpuSample(n, v)
  \/ \E n \in Nodes, v \in MemInputs : MemSample(n, v)
  \/ \E n \in Nodes, r \in TempReadings : TempSample(n, r)
  \/ \E n \in Nodes : GossipTick(n)
  \/ \E m \in pushes : Push(m)
  \/ \E m \in pushes : PushFail(m)
  \/ \E n \in Nodes, j \in Jobs : runJob(n, j)
  \/ \E i \in 1..MaxHops : TakeView(i)
  \/ \E i \in 1..MaxHops : Schedule(i)
  \/ \E i \in 1..MaxHops, ok \in BOOLEAN : ExecStep(i, ok)
  \/ \E i \in 1..MaxHops : DialFail(i)
  \/ \E i \in 1..MaxHops : ForwardSend(i)
  \/ \E i \in 1..MaxHops : ForwardReply(i)
  \/ \E i \in 1..MaxHops : ForwardTimeout(i)

Spec == Init /\ [][Next]_vars

\* ------------------------------------------------- scheduling decisions alone

(***************************************************************************)
(* SchedSpec runs scheduleJob once on node "A", on a Cluster View drawn    *)
(* from the views a running node can hold: its own entry and the entries   *)
(* of two peers, each absent or present with a snapshot of SchedSnapshots  *)
(* and an age of NodeTTL or NodeTTL + 1 seconds.                           *)
(***************************************************************************)
SchedNode == "A"
SchedKeys == {"localhost", "B", "C"}
SchedNow == NodeTTL + 1
SchedJobs == {IMG_RESIZE, DATA_ETL}
SchedSnapshots ==
  { [Cpu |-> c, Mem |-> m, TempC |-> 0, TempStatus |-> s, Zone |-> ""] :
      c \in {10, 25}, m \in {20, 80}, s \in {"", "SAFE", "WARM", "HOT"} }
SchedEntries ==
  { [Snapshot |-> s, LastSeen |-> t] : s \in SchedSnapshots, t \in {0, SchedNow - NodeTTL} }
SchedViews ==
  UNION { [ks -> SchedEntries] : ks \in SUBSET SchedKeys }

SchedInit ==
  /\ now = SchedNow
  /\ localSnap = [n \in Nodes |-> ZeroSnapshot]
  /\ \E v \in SchedViews :
       cluster = [n \in Nodes |-> IF n = SchedNode THEN v ELSE EmptyMap]
  /\ pushes = {}
  /\ job \in SchedJobs
  /\ inv = <<Received(SchedNode)>>
  /\ updates = 0
  /\ nextTick = [n \in Nodes |-> SchedNow + GossipInterval]
  /\ peers = [n \in Nodes |-> Nodes \ {n}]
  /\ pushAck = [n \in Nodes |-> NoAck]
  /\ SnapIdle
  /\ ThermIdle
  /\ ProdIdle

SchedNext ==
  \/ TakeView(1)
  \/ Schedule(1)

SchedSpec == SchedInit /\ [][SchedNext]_vars

\* ------------------------------------------------------------- gossip alone

(***************************************************************************)
(* GossipSpec runs the gossip of the mesh without jobs, from the instant   *)
(* of the first tick of the nodes (started together, no collector value    *)
(* delivered yet): the clock counts from that instant, so that entries     *)
(* older than NodeTTL are met before it stops. Every node is started with  *)
(* the other node, an address at which no node runs, and a blank entry in  *)
(* its --peers list.                                                       *)
(***************************************************************************)
DownPeer == "D"
GossipPeers(n) == (Nodes \ {n}) \cup {DownPeer, " "}

GossipInit ==
  /\ now = 0
  /\ localSnap = [n \in Nodes |-> ZeroSnapshot]
  /\ cluster = [n \in Nodes |-> EmptyMap]
  /\ pushes = {}
  /\ job = NoJob
  /\ inv = <<>>
  /\ updates = 0
  /\ nextTick = [n \in Nodes |-> 0]
  /\ peers = [n \in Nodes |-> GossipPeers(n)]
  /\ pushAck = [n \in Nodes |-> NoAck]
  /\ SnapIdle
  /\ ThermIdle
  /\ ProdIdle

GossipNext ==
  \/ AdvanceTime
  \/ \E n \in Nodes, v \in CpuInputs : CpuSample(n, v)
  \/ \E n \in Nodes, v \in MemInputs : MemSample(n, v)
  \/ \E n \in Nodes, r \in TempReadings : TempSample(n, r)
  \/ \E n \in Nodes : GossipTick(n)
  \/ \E m \in pushes : Push(m)
  \/ \E m \in pushes : PushFail(m)

GossipSpec == GossipInit /\ [][GossipNext]_vars

\* ------------------------------------------------------ the thermal collector

(***************************************************************************)
(* ThermalSpec runs the thermal collector alone: the kernel raises         *)
(* thermal_temperature events, the probe handle_thermal_temp records them  *)
(* in the maps, and pollThermalStats reads the maps on its ticks and sends *)
(* a TempReading. Temperatures are in millidegrees; TempC, the float64     *)
(* quotient by 1000.0, is held exactly as [whole, frac] with frac counting *)
(* thousandths.                                                            *)
(***************************************************************************)
\* The node whose collectors and snapshot are followed.
SnapNode == "A"
\* int temp of the event: values around the thresholds, and below zero.
KernelTemps ==
  {-5000, -1, 0, 45000, 59999, 60000, 60001, 79999, 80000, 80001, 103000}
ZoneTypes == {"cpu-thermal", "gpu-thermal"}

\* tempC := float64(tempMC) / 1000.0
TempCOf(tempMC) == [whole |-> tempMC.k, frac |-> tempMC.u]
\* tempC > d for a whole number of degrees d.
Above(tempC, d) == tempC.whole > d \/ (tempC.whole = d /\ tempC.frac > 0)

\* pollThermalStats: status := "SAFE"; if tempC > 80.0 ... else if tempC > 60.0
StatusOf(tempC) ==
  IF Above(tempC, HotAbove) THEN "HOT"
  ELSE IF Above(tempC, WarmAbove) THEN "WARM"
  ELSE "SAFE"

\* The kernel reports temperature t for the zone z, and handle_thermal_temp
\* runs: u32 temp_mc = ctx->temp; the name and the count are written for the
\* first event only, the temperature for every event.
handle_thermal_temp(t, z) ==
  /\ tracepoint' = [temp |-> t, zone |-> z]
  /\ bpfMaps' = [zoneCount |-> 1,
                 tempMC |-> ToU32(t),
                 name |-> IF bpfMaps.zoneCount = 0 THEN z ELSE bpfMaps.name]
  /\ tracepoint' # tracepoint
  /\ UNCHANGED <<meshVars, snapVars, prodVars, emitted, polls, tempSent, tempChan>>

\* The reading pollThermalStats makes from the maps.
ReadingOf(maps) ==
  [TempC |-> TempCOf(maps.tempMC),
   Status |-> StatusOf(TempCOf(maps.tempMC)),
   Zone |-> maps.name]

\* Variant: a tick with zone_count 0 sends a reading marked UNAVAILABLE.
pollThermalStatsUnavailable ==
  /\ polls < MaxPolls
  /\ tempChan = <<>>
  /\ polls' = polls + 1
  /\ tempSent' = tempSent + 1
  /\ emitted' =
       IF bpfMaps.zoneCount = 0
       THEN [TempC |-> TempCOf(ToU32(0)), Status |-> "UNAVAILABLE", Zone |-> "unknown"]
       ELSE ReadingOf(bpfMaps)
  /\ tempChan' = <<emitted'>>
  /\ UNCHANGED <<meshVars, snapVars, prodVars, tracepoint, bpfMaps>>

\* pollThermalStats, one tick: nothing is sent while zone_count is 0
\* (continue); otherwise the reading made from the maps is sent on the
\* stream, which takes a consumer waiting to receive.
pollThermalStats ==
  /\ polls < MaxPolls
  /\ polls' = polls + 1
  /\ IF bpfMaps.zoneCount = 0
     THEN UNCHANGED <<emitted, tempSent, tempChan>>
     ELSE /\ tempChan = <<>>
          /\ tempSent' = tempSent + 1
          /\ emitted' = ReadingOf(bpfMaps)
          /\ tempChan' = <<emitted'>>
  /\ UNCHANGED <<meshVars, snapVars, prodVars, tracepoint, bpfMaps>>

\* runPeer: for v := range tempStream { localSnap.UpdateTemp(v) }, on the
\* node the collector runs on.
tempConsumer ==
  /\ tempChan # <<>>
  /\ localSnap' = [localSnap EXCEPT ![SnapNode] = UpdateTemp(@, tempChan[1])]
  /\ tempChan' = <<>>
  /\ UNCHANGED <<now, cluster, pushes, job, inv, updates, nextTick, peers, pushAck,
                 snapVars, prodVars, tracepoint, bpfMaps, emitted, polls, tempSent>>

ThermalInit ==
  /\ now = 0
  /\ localSnap = [n \in Nodes |-> [ZeroSnapshot EXCEPT !.TempC = TempCOf(ToU32(0))]]
  /\ cluster = [n \in Nodes |-> EmptyMap]
  /\ pushes = {}
  /\ job = NoJob
  /\ inv = <<>>
  /\ updates = 0
  /\ nextTick = [n \in Nodes |-> GossipInterval]
  /\ peers = [n \in Nodes |-> {}]
  /\ pushAck = [n \in Nodes |-> NoAck]
  /\ SnapIdle
  /\ ThermIdle
  /\ ProdIdle

ThermalNext ==
  \/ \E t \in KernelTemps, z \in ZoneTypes : handle_thermal_temp(t, z)
  \/ pollThermalStats
  \/ tempConsumer

ThermalSpec == ThermalInit /\ [][ThermalNext]_vars

\* The thermal collector within its node: the probe, the poller and the
\* consumer as above, and the gossip ticker that copies the Local Snapshot
\* into the Cluster View; one temperature for each status, and one below
\* zero.
NodeTemps == {-5000, 45000, 60001, 80001}

ThermalNodeNext ==
  \/ \E t \in NodeTemps, z \in ZoneTypes : handle_thermal_temp(t, z)
  \/ pollThermalStats
  \/ tempConsumer
  \/ AdvanceTime
  \/ \E n \in Nodes : GossipTick(n)

ThermalNodeSpec == ThermalInit /\ [][ThermalNodeNext]_vars

\* ------------------------------------------- the Local Snapshot's goroutines

(***************************************************************************)
(* SnapSpec runs, on one node, the goroutines of runPeer that share the    *)
(* Local Snapshot: the consumers of the three collector streams, calling   *)
(* UpdateCPU, UpdateMem and UpdateTemp, and the gossip loop, calling Read. *)
(* Every method is taken apart into its lock operation, its accesses to    *)
(* the fields one at a time, and its unlock operation.                     *)
(***************************************************************************)
SnapCpuInputs == {40, 95, 120}
SnapMemInputs == {30, 60}
SnapTempReadings ==
  { [TempC |-> 45, Status |-> "SAFE", Zone |-> "zone0"],
    [TempC |-> 85, Status |-> "HOT", Zone |-> "zone1"] }

\* The fields of MetricsSnapshot in the order Read copies them, and the
\* three of them UpdateTemp assigns, in its order.
SnapFields == <<"CPUPercent", "MemPercent", "TempC", "TempStatus", "ZoneName">>
TempFields == <<"TempC", "TempStatus", "ZoneName">>

\* Variant: RLock does not wait for the writer.
CanRLockAlways(m) == TRUE

\* sync.RWMutex: Lock waits for the writer and the readers, RLock for the
\* writer.
CanLock(m) == m.writer = "" /\ m.readers = {}
CanRLock(m) == m.writer = ""

\* for v := range cpuStream { localSnap.UpdateCPU(v) }: a value arrives and
\* UpdateCPU is entered.
CpuCall(v) ==
  /\ proc.cpu.pc = "recv"
  /\ proc' = [proc EXCEPT !.cpu = [pc |-> "lock", v |-> v]]
  /\ fed' = [fed EXCEPT !.CPU = @ \cup {v}]
  /\ UNCHANGED <<meshVars, thermVars, prodVars, mu>>

\* for v := range memStream { localSnap.UpdateMem(v) }
MemCall(v) ==
  /\ proc.mem.pc = "recv"
  /\ proc' = [proc EXCEPT !.mem = [pc |-> "lock", v |-> v]]
  /\ fed' = [fed EXCEPT !.Mem = @ \cup {v}]
  /\ UNCHANGED <<meshVars, thermVars, prodVars, mu>>

\* for v := range tempStream { localSnap.UpdateTemp(v) }
TempCall(r) ==
  /\ proc.temp.pc = "recv"
  /\ proc' = [proc EXCEPT !.temp = [pc |-> "lock", r |-> r]]
  /\ fed' = [fed EXCEPT !.Temp = @ \cup {r}]
  /\ UNCHANGED <<meshVars, thermVars, prodVars, mu>>

\* c.mu.Lock() of an updater.
Lock(g) ==
  /\ proc[g].pc = "lock"
  /\ CanLock(mu)
  /\ mu' = [mu EXCEPT !.writer = g]
  /\ proc' = [proc EXCEPT ![g].pc = IF g = "temp" THEN TempFields[1] ELSE "store"]
  /\ UNCHANGED <<meshVars, thermVars, prodVars, fed>>

\* UpdateCPU: c.CPUPercent = v, after the clamp of the local v.
StoreCPU ==
  /\ proc.cpu.pc = "store"
  /\ localSnap' = [localSnap EXCEPT ![SnapNode] = UpdateCPU(@, proc.cpu.v)]
  /\ proc' = [proc EXCEPT !.cpu.pc = "unlock"]
  /\ UNCHANGED <<now, cluster, pushes, job, inv, updates, nextTick, peers, pushAck,
                 thermVars, prodVars, mu, fed>>

\* UpdateMem: c.MemPercent = v.
StoreMem ==
  /\ proc.mem.pc = "store"
  /\ localSnap' = [localSnap EXCEPT ![SnapNode] = UpdateMem(@, proc.mem.v)]
  /\ proc' = [proc EXCEPT !.mem.pc = "unlock"]
  /\ UNCHANGED <<now, cluster, pushes, job, inv, updates, nextTick, peers, pushAck,
                 thermVars, prodVars, mu, fed>>

\* UpdateTemp: its k-th assignment, c.TempC = v.TempC, c.TempStatus =
\* v.Status, c.ZoneName = v.Zone.
StoreTemp(k) ==
  /\ proc.temp.pc = TempFields[k]
  /\ localSnap' = [localSnap EXCEPT ![SnapNode][TempFields[k]] =
                     UpdateTemp(localSnap[SnapNode], proc.temp.r)[TempFields[k]]]
  /\ proc' = [proc EXCEPT !.temp.pc =
                IF k < Len(TempFields) THEN TempFields[k + 1] ELSE "unlock"]
  /\ UNCHANGED <<now, cluster, pushes, job, inv, updates, nextTick, peers, pushAck,
                 thermVars, prodVars, mu, fed>>

\* c.mu.Unlock() of an updater, which returns to its stream.
Unlock(g) ==
  /\ proc[g].pc = "unlock"
  /\ mu' = [mu EXCEPT !.writer = ""]
  /\ proc' = [proc EXCEPT ![g].pc = "recv"]
  /\ UNCHANGED <<meshVars, thermVars, prodVars, fed>>

\* runPeer, case <-ticker.C: current := localSnap.Read() is entered,
\* c.mu.RLock().
RLock ==
  /\ proc.tick.pc \in {"wait", "got"}
  /\ CanRLock(mu)
  /\ mu' = [mu EXCEPT !.readers = @ \cup {"tick"}]
  /\ proc' = [proc EXCEPT !.tick = [pc |-> SnapFields[1], current |-> ZeroSnapshot]]
  /\ UNCHANGED <<meshVars, thermVars, prodVars, fed>>

\* Read: the k-th field is copied into the struct that is returned.
Load(k) ==
  /\ proc.tick.pc = SnapFields[k]
  /\ proc' = [proc EXCEPT
       !.tick.current[SnapFields[k]] = Read(localSnap[SnapNode])[SnapFields[k]],
       !.tick.pc = IF k < Len(SnapFields) THEN SnapFields[k + 1] ELSE "runlock"]
  /\ UNCHANGED <<meshVars, thermVars, prodVars, mu, fed>>

\* Read: the deferred c.mu.RUnlock(); the gossip loop has its `current`.
RUnlock ==
  /\ proc.tick.pc = "runlock"
  /\ mu' = [mu EXCEPT !.readers = @ \ {"tick"}]
  /\ proc' = [proc EXCEPT !.tick.pc = "got"]
  /\ UNCHANGED <<meshVars, thermVars, prodVars, fed>>

SnapInit ==
  /\ now = 0
  /\ localSnap = [n \in Nodes |-> ZeroSnapshot]
  /\ cluster = [n \in Nodes |-> EmptyMap]
  /\ pushes = {}
  /\ job = NoJob
  /\ inv = <<>>
  /\ updates = 0
  /\ nextTick = [n \in Nodes |-> GossipInterval]
  /\ peers = [n \in Nodes |-> Nodes \ {n}]
  /\ pushAck = [n \in Nodes |-> NoAck]
  /\ SnapIdle
  /\ ThermIdle
  /\ ProdIdle

SnapNext ==
  \/ \E v \in SnapCpuInputs : CpuCall(v)
  \/ \E v \in SnapMemInputs : MemCall(v)
  \/ \E r \in SnapTempReadings : TempCall(r)
  \/ \E g \in {"cpu", "mem", "temp"} : Lock(g)
  \/ StoreCPU
  \/ StoreMem
  \/ \E k \in DOMAIN TempFields : StoreTemp(k)
  \/ \E g \in {"cpu", "mem", "temp"} : Unlock(g)
  \/ RLock
  \/ \E k \in DOMAIN SnapFields : Load(k)
  \/ RUnlock

SnapSpec == SnapInit /\ [][SnapNext]_vars

(***************************************************************************)
(* The CPU collector: the probes handle_sched_switch and                   *)
(* handle_process_exit keep the map cpu_usage (pid -> cumulative CPU time) *)
(* and pollCPUStats, on each tick, walks the map, adds up the growth of    *)
(* every counter since the last tick and sends the percentage. Time is in  *)
(* units of a fifth of the poll interval, so that the percentage is a      *)
(* whole number; cleanup is the closure StartCPUCollector returns.         *)
(***************************************************************************)
MaxNs == 6
MaxCleanups == 2
\* poll := 1 * time.Second, in time units.
IntervalNS == 5
Pids == {1, 2}
\* The CPU time of one stay of a process on a CPU.
RunTimes == {1, 2}

\* The mesh at rest, for the specifications that follow one node's
\* collectors or commands only.
MeshIdle ==
  /\ now = 0
  /\ localSnap = [n \in Nodes |-> ZeroSnapshot]
  /\ cluster = [n \in Nodes |-> EmptyMap]
  /\ pushes = {}
  /\ job = NoJob
  /\ inv = <<>>
  /\ updates = 0
  /\ nextTick = [n \in Nodes |-> GossipInterval]
  /\ peers = [n \in Nodes |-> {}]
  /\ pushAck = [n \in Nodes |-> NoAck]

\* handle_sched_switch for the process pid leaving the CPU after delta time
\* units: the duration is added to cpu_usage[pid], or the entry is made.
handle_sched_switch(pid, delta) ==
  /\ cpuClean = 0
  /\ LET total == IF pid \in DOMAIN cpuUsage THEN cpuUsage[pid] + delta ELSE delta
     IN  /\ total <= MaxNs
         /\ cpuUsage' = [k \in DOMAIN cpuUsage \cup {pid} |->
                           IF k = pid THEN total ELSE cpuUsage[k]]
  /\ UNCHANGED <<meshVars, snapVars, thermVars, memVars, cmdVars, lastCPU, cpuOut, cpuClean, startTimes, onCpu>>

\* handle_process_exit: the entry of the process is deleted; the pid may be
\* given to a new process later.
handle_process_exit(pid) ==
  /\ cpuClean = 0
  /\ pid \in DOMAIN cpuUsage
  /\ cpuUsage' = [k \in DOMAIN cpuUsage \ {pid} |-> cpuUsage[k]]
  /\ UNCHANGED <<meshVars, snapVars, thermVars, memVars, cmdVars, lastCPU, cpuOut, cpuClean, startTimes, onCpu>>

\* Variant: the difference is taken whether the counter grew or not.
DeltaUnguarded(ns, prev) == ns - prev

\* pollCPUStats: if ns > prev { totalDelta += ns - prev }
Delta(ns, prev) == IF ns > prev THEN ns - prev ELSE 0

\* lastCPU[pid], the zero value for a pid the map does not hold.
Prev(last, pid) == IF pid \in DOMAIN last THEN last[pid] ELSE 0

\* pollCPUStats: totalDelta after the loop over the entries of the map.
totalDelta(usage, last) ==
  LET acc[S \in SUBSET DOMAIN usage] ==
        IF S = {} THEN 0
        ELSE LET pid == CHOOSE x \in S : TRUE
             IN  acc[S \ {pid}] + Delta(usage[pid], Prev(last, pid))
  IN  acc[DOMAIN usage]

\* scaledIntervalNS := uint64(float64(intervalNS) * numCPUs)
scaledIntervalNS == IntervalNS * NumCPUs

\* What bpf.cpuMap.Iterate() yields: the entries of the map, and nothing
\* once cleanup has closed the map.
Iterate == IF cpuClean = 0 THEN cpuUsage ELSE EmptyMap

\* pollCPUStats, one tick: the loop over the map, lastCPU[pid] = ns for
\* every pid met, and the percentage sent on the stream. close(out) is
\* deferred to the end of a loop over ticker.C, which does not end.
pollCPUStats ==
  /\ cpuOut.sent < MaxPolls
  /\ lastCPU' = [k \in DOMAIN lastCPU \cup DOMAIN Iterate |->
                   IF k \in DOMAIN Iterate THEN Iterate[k] ELSE lastCPU[k]]
  /\ cpuOut' = [cpuOut EXCEPT
                  !.sent = @ + 1,
                  !.v = (totalDelta(Iterate, lastCPU) * 100) \div scaledIntervalNS]
  /\ UNCHANGED <<meshVars, snapVars, thermVars, memVars, cmdVars, cpuUsage, cpuClean, startTimes, onCpu>>

\* Variant: cleanup also closes the stream.
finalCleanupClosing ==
  /\ cpuClean < MaxCleanups
  /\ cpuClean' = cpuClean + 1
  /\ cpuOut' = [cpuOut EXCEPT !.closed = TRUE]
  /\ UNCHANGED <<meshVars, snapVars, thermVars, memVars, cmdVars, cpuUsage, lastCPU, startTimes, onCpu>>

\* The cleanup StartCPUCollector returns: hSwitch.Close(); hExit.Close();
\* bpf.cleanup(). The probes are detached and the maps closed; the stream
\* and the polling goroutine are not touched. The errors of the Close
\* calls are dropped, so a second call changes nothing.
finalCleanup ==
  /\ cpuClean < MaxCleanups
  /\ cpuClean' = cpuClean + 1
  /\ UNCHANGED <<meshVars, snapVars, thermVars, memVars, cmdVars, cpuUsage, lastCPU, cpuOut, startTimes, onCpu>>

CpuInit ==
  /\ MeshIdle
  /\ SnapIdle
  /\ ThermIdle
  /\ ProdIdle

CpuNext ==
  \/ \E pid \in Pids, delta \in RunTimes : handle_sched_switch(pid, delta)
  \/ \E pid \in Pids : handle_process_exit(pid)
  \/ pollCPUStats
  \/ finalCleanup

CpuSpec == CpuInit /\ [][CpuNext]_vars

(***************************************************************************)
(* The memory collector: the probes on direct reclaim keep the time at     *)
(* which a process entered reclaim and add the length of every finished       *)
(* reclaim to mem_stall_ns[0]; pollMemStats, on each tick, sends the       *)
(* growth of that counter as a percentage of the poll interval, and the    *)
(* consumer in runPeer stores what it receives with UpdateMem. The clock   *)
(* is `now`; the poll interval is MemInterval time units.                  *)
(***************************************************************************)
\* interval := 1 * time.Second, in time units.
MemInterval == 2

\* Time passes; a tick of pollMemStats that is due is served first.
MemClock ==
  /\ now < MaxTime
  /\ now < (memOut.sent + 1) * MemInterval
  /\ now' = now + 1
  /\ UNCHANGED <<localSnap, cluster, pushes, job, inv, updates, nextTick, peers, pushAck,
                 snapVars, thermVars, cpuVars, memVars, cmdVars>>

\* handle_reclaim_begin in the process pid: start_times[pid] = now.
handle_reclaim_begin(pid) ==
  /\ pid \notin DOMAIN memStall.start
  /\ memStall' = [memStall EXCEPT
                    !.start = [k \in DOMAIN @ \cup {pid} |-> IF k = pid THEN now ELSE @[k]]]
  /\ UNCHANGED <<meshVars, snapVars, thermVars, cpuVars, cmdVars, memLast, memOut>>

\* handle_reclaim_end in the process pid: now - start is added to the total
\* and the start time is deleted.
handle_reclaim_end(pid) ==
  /\ pid \in DOMAIN memStall.start
  /\ memStall' = [total |-> memStall.total + (now - memStall.start[pid]),
                  start |-> [k \in DOMAIN memStall.start \ {pid} |-> memStall.start[k]]]
  /\ UNCHANGED <<meshVars, snapVars, thermVars, cpuVars, cmdVars, memLast, memOut>>

\* Variant: the percentage is cut off at 100.
memPercentCapped(delta) ==
  IF (delta * 100) \div MemInterval > 100 THEN 100 ELSE (delta * 100) \div MemInterval

\* pollMemStats: memPercent := (float64(delta) / float64(intervalNS)) * 100.0
memPercent(delta) == (delta * 100) \div MemInterval

\* pollMemStats, one tick: delta := total - last; last = total; the
\* percentage is sent, which takes a consumer waiting to receive.
pollMemStats ==
  /\ now = (memOut.sent + 1) * MemInterval
  /\ memOut.recv = <<>>
  /\ memLast' = memStall.total
  /\ memOut' = [sent |-> memOut.sent + 1,
                v |-> memPercent(memStall.total - memLast),
                recv |-> <<memPercent(memStall.total - memLast)>>]
  /\ UNCHANGED <<meshVars, snapVars, thermVars, cpuVars, cmdVars, memStall>>

\* runPeer: for v := range memStream { localSnap.UpdateMem(v) }
memConsumer ==
  /\ memOut.recv # <<>>
  /\ localSnap' = [localSnap EXCEPT ![SnapNode] = UpdateMem(@, memOut.recv[1])]
  /\ memOut' = [memOut EXCEPT !.recv = <<>>]
  /\ UNCHANGED <<now, cluster, pushes, job, inv, updates, nextTick, peers, pushAck,
                 snapVars, thermVars, cpuVars, cmdVars, memStall, memLast>>

MemInit ==
  /\ MeshIdle
  /\ SnapIdle
  /\ ThermIdle
  /\ ProdIdle

MemNext ==
  \/ MemClock
  \/ \E pid \in Pids : handle_reclaim_begin(pid)
  \/ \E pid \in Pids : handle_reclaim_end(pid)
  \/ pollMemStats
  \/ memConsumer

MemSpec == MemInit /\ [][MemNext]_vars

(***************************************************************************)
(* The run command: one process that checks its arguments (cobra), builds  *)
(* the job of the workload named, submits it to the node on this host and  *)
(* prints the outcome. Execute exits with 1 when rootCmd.Execute returns   *)
(* an error, which it does for a wrong number of arguments only: runJob    *)
(* has no result, and the process ends with 0 when runJob returns. The     *)
(* views of the two nodes are drawn from a small set and do not change.    *)
(***************************************************************************)
\* The node on the host of the run command (DaemonLocalAddr).
RunNode == "A"
RunSnapshots ==
  { [Cpu |-> c, Mem |-> 20, TempC |-> 0, TempStatus |-> "SAFE", Zone |-> ""] : c \in {10, 90} }
RunEntries == { [Snapshot |-> s, LastSeen |-> 0] : s \in RunSnapshots }
RunViews(n) == UNION { [ks -> RunEntries] : ks \in SUBSET ({"localhost"} \cup (Nodes \ {n})) }

\* The exit of the process with the code and the last line printed.
Exited(code, out) == [exited |-> TRUE, code |-> code, out |-> out]

\* Args: cobra.ExactArgs(1) fails; Execute: os.Exit(1).
runJobBadArgs ==
  /\ ~runCmd.exited
  /\ job = NoJob
  /\ runCmd' = Exited(1, "usage")
  /\ UNCHANGED <<meshVars, snapVars, thermVars, cpuVars, memVars, boot>>

\* runJob, default case of the switch: "Unknown workload", return.
runJobUnknown ==
  /\ ~runCmd.exited
  /\ job = NoJob
  /\ runCmd' = Exited(0, "Unknown workload")
  /\ UNCHANGED <<meshVars, snapVars, thermVars, cpuVars, memVars, boot>>

\* runJob, 3. Submit, when no node listens on DaemonLocalAddr:
\* client.SubmitJob returns an error, ">> Job Failed", return.
runJobUnreachable(j) ==
  /\ ~runCmd.exited
  /\ job = NoJob
  /\ job' = j
  /\ runCmd' = Exited(0, ">> Job Failed")
  /\ UNCHANGED <<now, localSnap, cluster, pushes, inv, updates, nextTick, peers, pushAck,
                 snapVars, thermVars, cpuVars, memVars, boot>>

\* runJob, 3. Submit: client.SubmitJob reaches the handler of the node.
runJobSubmit(j) ==
  /\ ~runCmd.exited
  /\ runJob(RunNode, j)

\* runJob: the deadline of JobSubmissionTimeout passes before the handler
\* has returned: ">> Job Failed", return. The handler is not stopped.
runJobDeadline ==
  /\ ~runCmd.exited
  /\ inv # <<>>
  /\ inv[1].pc \notin Terminal
  /\ runCmd' = Exited(0, ">> Job Failed")
  /\ UNCHANGED <<meshVars, snapVars, thermVars, cpuVars, memVars, boot>>

\* Variant: a failed submission ends the process with code 1.
runJobReplyExitOnError ==
  /\ ~runCmd.exited
  /\ inv # <<>>
  /\ inv[1].pc \in Terminal
  /\ runCmd' = IF inv[1].err THEN Exited(1, ">> Job Failed") ELSE Exited(0, ">> Result")
  /\ UNCHANGED <<meshVars, snapVars, thermVars, cpuVars, memVars, boot>>

\* runJob: client.SubmitJob returns what the handler returned; with an
\* error ">> Job Failed" is printed, without one ">> Result"; return.
runJobReply ==
  /\ ~runCmd.exited
  /\ inv # <<>>
  /\ inv[1].pc \in Terminal
  /\ runCmd' = IF inv[1].err THEN Exited(0, ">> Job Failed") ELSE Exited(0, ">> Result")
  /\ UNCHANGED <<meshVars, snapVars, thermVars, cpuVars, memVars, boot>>

RunInit ==
  /\ now = 0
  /\ localSnap = [n \in Nodes |-> ZeroSnapshot]
  /\ \E va \in RunViews("A"), vb \in RunViews("B") :
       cluster = [n \in Nodes |-> IF n = "A" THEN va ELSE vb]
  /\ pushes = {}
  /\ job = NoJob
  /\ inv = <<>>
  /\ updates = 0
  /\ nextTick = [n \in Nodes |-> GossipInterval]
  /\ peers = [n \in Nodes |-> Nodes \ {n}]
  /\ pushAck = [n \in Nodes |-> NoAck]
  /\ SnapIdle
  /\ ThermIdle
  /\ ProdIdle

RunNext ==
  \/ runJobBadArgs
  \/ runJobUnknown
  \/ \E j \in Jobs : runJobUnreachable(j)
  \/ \E j \in Jobs : runJobSubmit(j)
  \/ runJobDeadline
  \/ runJobReply
  \/ \E i \in 1..MaxHops : TakeView(i)
  \/ \E i \in 1..MaxHops : Schedule(i)
  \/ \E i \in 1..MaxHops, ok \in BOOLEAN : ExecStep(i, ok)
  \/ \E i \in 1..MaxHops : DialFail(i)
  \/ \E i \in 1..MaxHops : ForwardSend(i)
  \/ \E i \in 1..MaxHops : ForwardReply(i)
  \/ \E i \in 1..MaxHops : ForwardTimeout(i)

RunSpec == RunInit /\ [][RunNext]_vars

(***************************************************************************)
(* The start-up of the peer command on every node: startServer, the three  *)
(* collectors in turn, then the loop with the gossip ticker, until the     *)
(* stop signal. Binding the port and starting a collector can fail.        *)
(***************************************************************************)
Collectors == <<"CPU", "MEM", "TEMP">>

\* Where runPeer goes after the collector at position k has started.
AfterCollector(k) == IF k = Len(Collectors) THEN "loop" ELSE Collectors[k + 1]

\* Variant: the return from runPeer runs the cleanup of the CPU collector
\* only.
DeferredFirstOnly(cleaned, k) ==
  [c \in DOMAIN cleaned |-> IF k >= 1 /\ c = Collectors[1] THEN cleaned[c] + 1 ELSE cleaned[c]]

\* The deferred calls that run when runPeer returns after the first k
\* collectors have started: defer cpuCleanup(), memCleanup(), tempCleanup().
Deferred(cleaned, k) ==
  [c \in DOMAIN cleaned |->
     IF \E i \in 1..k : Collectors[i] = c THEN cleaned[c] + 1 ELSE cleaned[c]]

\* Variant: a port that cannot be bound ends the process with code 1.
startServerFatal(n, ok) ==
  /\ boot[n].pc = "start"
  /\ boot' = [boot EXCEPT ![n] =
       IF ok THEN [@ EXCEPT !.pc = Collectors[1], !.serving = TRUE]
       ELSE [@ EXCEPT !.pc = "exited", !.code = 1, !.failed = @ \cup {"bind"},
                      !.out = @ \cup {"Error binding port"}]]
  /\ UNCHANGED <<meshVars, snapVars, thermVars, cpuVars, memVars, runCmd>>

\* runPeer: startServer(PeerPort). When net.Listen fails the error is
\* printed and startServer returns; runPeer goes on either way.
startServer(n, ok) ==
  /\ boot[n].pc = "start"
  /\ boot' = [boot EXCEPT ![n] =
       IF ok THEN [@ EXCEPT !.pc = Collectors[1], !.serving = TRUE]
       ELSE [@ EXCEPT !.pc = Collectors[1], !.failed = @ \cup {"bind"},
                      !.out = @ \cup {"Error binding port"}]]
  /\ UNCHANGED <<meshVars, snapVars, thermVars, cpuVars, memVars, runCmd>>

\* runPeer: Start...Collector() for the collector at position k. On an
\* error "... init failed" is printed and runPeer returns: the process
\* ends, with code 0, and its server with it. After the last collector
\* the ticker is made and the loop entered.
StartCollector(n, k, ok) ==
  /\ k \in DOMAIN Collectors
  /\ boot[n].pc = Collectors[k]
  /\ boot' = [boot EXCEPT ![n] =
       IF ok THEN [@ EXCEPT !.pc = AfterCollector(k)]
       ELSE [@ EXCEPT !.pc = "exited", !.serving = FALSE, !.code = 0,
                      !.failed = @ \cup {Collectors[k]},
                      !.out = @ \cup {"init failed"},
                      !.cleaned = Deferred(@, k - 1)]]
  /\ nextTick' = IF ok /\ AfterCollector(k) = "loop"
                 THEN [nextTick EXCEPT ![n] = now + GossipInterval]
                 ELSE nextTick
  /\ UNCHANGED <<now, localSnap, cluster, pushes, job, inv, updates, peers, pushAck,
                 snapVars, thermVars, cpuVars, memVars, runCmd>>

\* Time passes, unless the ticker of a node in its loop is due or a push
\* has been waiting for its time-out.
BootClock ==
  /\ now < MaxTime
  /\ \A n \in Nodes : boot[n].pc = "loop" => nextTick[n] > now
  /\ \A m \in pushes : now - m.sent < PushTimeout
  /\ now' = now + 1
  /\ UNCHANGED <<localSnap, cluster, pushes, job, inv, updates, nextTick, peers, pushAck,
                 snapVars, thermVars, prodVars>>

\* runPeer, case <-ticker.C, on a node in its loop.
bootTick(n) ==
  /\ boot[n].pc = "loop"
  /\ GossipTick(n)

\* A push reaches the server of its target.
bootPush(m) ==
  /\ boot[m.to].serving
  /\ Push(m)

\* A push meets no server at its target, or fails on the way.
bootPushFail(m) == PushFail(m)

\* runPeer, case <-stop: "Shutting down...", return.
stop(n) ==
  /\ boot[n].pc = "loop"
  /\ boot' = [boot EXCEPT ![n] = [@ EXCEPT !.pc = "exited", !.serving = FALSE, !.code = 0,
                                            !.out = @ \cup {"Shutting down..."},
                                            !.cleaned = Deferred(@, Len(Collectors))]]
  /\ UNCHANGED <<meshVars, snapVars, thermVars, cpuVars, memVars, runCmd>>

BootInit ==
  /\ now = 0
  /\ localSnap = [n \in Nodes |-> ZeroSnapshot]
  /\ cluster = [n \in Nodes |-> EmptyMap]
  /\ pushes = {}
  /\ job = NoJob
  /\ inv = <<>>
  /\ updates = 0
  /\ nextTick = [n \in Nodes |-> 0]
  /\ peers = [n \in Nodes |-> Nodes \ {n}]
  /\ pushAck = [n \in Nodes |-> NoAck]
  /\ SnapIdle
  /\ ThermIdle
  /\ CollectorsIdle
  /\ runCmd = [exited |-> FALSE, code |-> 0, out |-> ""]
  /\ boot = [n \in Nodes |-> [Started EXCEPT !.pc = "start", !.serving = FALSE]]

BootNext ==
  \/ \E n \in Nodes, ok \in BOOLEAN : startServer(n, ok)
  \/ \E n \in Nodes, k \in DOMAIN Collectors, ok \in BOOLEAN : StartCollector(n, k, ok)
  \/ BootClock
  \/ \E n \in Nodes : bootTick(n)
  \/ \E m \in pushes : bootPush(m)
  \/ \E m \in pushes : bootPushFail(m)
  \/ \E n \in Nodes : stop(n)

BootSpec == BootInit /\ [][BootNext]_vars

(***************************************************************************)
(* A node started without --peers: LoneNode has an empty target list; the  *)
(* other node is started with or without LoneNode in its list, and pushes  *)
(* to it in the first case. The collectors of LoneNode deliver values and  *)
(* jobs are submitted to LoneNode.                                         *)
(***************************************************************************)
LoneNode == "A"

LoneInit ==
  /\ now = 0
  /\ localSnap = [n \in Nodes |-> ZeroSnapshot]
  /\ cluster = [n \in Nodes |-> EmptyMap]
  /\ pushes = {}
  /\ job = NoJob
  /\ inv = <<>>
  /\ updates = 0
  /\ nextTick = [n \in Nodes |-> GossipInterval]
  /\ \E ps \in SUBSET {LoneNode} :
       peers = [n \in Nodes |-> IF n = LoneNode THEN {} ELSE ps]
  /\ pushAck = [n \in Nodes |-> NoAck]
  /\ SnapIdle
  /\ ThermIdle
  /\ ProdIdle

LoneNext ==
  \/ AdvanceTime
  \/ \E v \in CpuInputs : CpuSample(LoneNode, v)
  \/ \E v \in MemInputs : MemSample(LoneNode, v)
  \/ \E r \in TempReadings : TempSample(LoneNode, r)
  \/ \E n \in Nodes : GossipTick(n)
  \/ \E m \in pushes : Push(m)
  \/ \E m \in pushes : PushFail(m)
  \/ \E j \in Jobs : runJob(LoneNode, j)
  \/ \E i \in 1..MaxHops : TakeView(i)
  \/ \E i \in 1..MaxHops : Schedule(i)
  \/ \E i \in 1..MaxHops, ok \in BOOLEAN : ExecStep(i, ok)
  \/ \E i \in 1..MaxHops : DialFail(i)
  \/ \E i \in 1..MaxHops : ForwardSend(i)
  \/ \E i \in 1..MaxHops : ForwardReply(i)
  \/ \E i \in 1..MaxHops : ForwardTimeout(i)

LoneSpec == LoneInit /\ [][LoneNext]_vars

(***************************************************************************)
(* The stop signal while a job is under way: the nodes are in their loops, *)
(* with views drawn from a small set, a job is submitted to RunNode, and   *)
(* any node can get the stop signal at any moment. The return of runPeer   *)
(* ends the process, and the handlers running in it make no further step;  *)
(* the handlers in the other processes go on, as nothing in scheduleJob or *)
(* executeDockerContainer looks at the context of the call.                *)
(***************************************************************************)
\* The process of the handler i is running.
Alive(i) == i \in DOMAIN inv /\ boot[inv[i].node].pc = "loop"

\* forwardJobToPeer: the dial succeeds only when the peer's server runs.
stopForwardSend(i) ==
  /\ Alive(i)
  /\ inv[i].sel \in Nodes
  /\ boot[inv[i].sel].serving
  /\ ForwardSend(i)

\* forwardJobToPeer: the connection breaks when the process of the remote
\* handler has ended, and the deadline can expire at any time.
stopForwardTimeout(i) ==
  /\ Alive(i)
  /\ ForwardTimeout(i)

StopInit ==
  /\ now = 0
  /\ localSnap = [n \in Nodes |-> ZeroSnapshot]
  /\ \E va \in RunViews("A"), vb \in RunViews("B") :
       cluster = [n \in Nodes |-> IF n = "A" THEN va ELSE vb]
  /\ pushes = {}
  /\ job = NoJob
  /\ inv = <<>>
  /\ updates = 0
  /\ nextTick = [n \in Nodes |-> GossipInterval]
  /\ peers = [n \in Nodes |-> Nodes \ {n}]
  /\ pushAck = [n \in Nodes |-> NoAck]
  /\ SnapIdle
  /\ ThermIdle
  /\ ProdIdle

StopNext ==
  \/ \E n \in Nodes : stop(n)
  \/ \E j \in Jobs : boot[RunNode].serving /\ runJob(RunNode, j)
  \/ \E i \in 1..MaxHops : Alive(i) /\ TakeView(i)
  \/ \E i \in 1..MaxHops : Alive(i) /\ Schedule(i)
  \/ \E i \in 1..MaxHops, ok \in BOOLEAN : Alive(i) /\ ExecStep(i, ok)
  \/ \E i \in 1..MaxHops : Alive(i) /\ DialFail(i)
  \/ \E i \in 1..MaxHops : stopForwardSend(i)
  \/ \E i \in 1..MaxHops : Alive(i) /\ ForwardReply(i)
  \/ \E i \in 1..MaxHops : stopForwardTimeout(i)

StopSpec == StopInit /\ [][StopNext]_vars

(***************************************************************************)
(* One job and its SubmitJob handlers, over views drawn from a small set   *)
(* that do not change. JobFairSpec adds what the deadline of the forward   *)
(* gives: forwardJobToPeer makes one context with JobForwardTimeout for    *)
(* the dial and the call, so a dial under way ends (connected or failed)   *)
(* and a call under way returns (reply or error), whatever else happens.   *)
(* Nothing is assumed of the executor or of the other handlers.            *)
(***************************************************************************)
JobNext ==
  \/ \E j \in Jobs : runJob(RunNode, j)
  \/ \E i \in 1..MaxHops : TakeView(i)
  \/ \E i \in 1..MaxHops : Schedule(i)
  \/ \E i \in 1..MaxHops, ok \in BOOLEAN : ExecStep(i, ok)
  \/ \E i \in 1..MaxHops : DialFail(i)
  \/ \E i \in 1..MaxHops : ForwardSend(i)
  \/ \E i \in 1..MaxHops : ForwardReply(i)
  \/ \E i \in 1..MaxHops : ForwardTimeout(i)

JobSpec == RunInit /\ [][JobNext]_vars

\* ctx, cancel := context.WithTimeout(context.Background(), JobForwardTimeout)
ForwardDeadline ==
  \A i \in 1..MaxHops :
    /\ WF_vars(DialFail(i) \/ ForwardSend(i))
    /\ WF_vars(ForwardReply(i) \/ ForwardTimeout(i))

JobFairSpec == RunInit /\ [][JobNext]_vars /\ ForwardDeadline

(***************************************************************************)
(* The forward with its clock. forwardJobToPeer makes one context with     *)
(* JobForwardTimeout and passes it both to grpc.DialContext (WithBlock)    *)
(* and to client.SubmitJob: the field deadline of a handler holds the time *)
(* at which that context expires. The clock counts seconds; a peer is      *)
(* unreachable when its process has stopped. A dial to an unreachable peer *)
(* ends with an error at the deadline at the latest, a call that waits for *)
(* the remote handler likewise; the remote handler has no deadline.        *)
(***************************************************************************)
JobForwardTimeout == 300
MaxClock == 303
MaxFwdHops == 2

\* Variant: the dial has a context of its own of two seconds.
forwardCtxShortDial(r, t) ==
  IF r.pc = "DIALING" THEN [r EXCEPT !.deadline = t + 2] ELSE r

\* forwardJobToPeer: ctx, cancel := context.WithTimeout(context.Background(),
\* JobForwardTimeout), made at time t when the handler r has chosen to forward.
forwardCtx(r, t) ==
  IF r.pc = "DIALING" THEN [r EXCEPT !.deadline = t + JobForwardTimeout] ELSE r

\* The handlers whose context is running: in the dial or in the call.
InForward(i) == Alive(i) /\ inv[i].pc \in {"DIALING", "FORWARDING"}

\* A second passes; no dial and no call outlasts its context.
fwdTick ==
  /\ now < MaxClock
  /\ \A i \in DOMAIN inv : InForward(i) => now < inv[i].deadline
  /\ now' = now + 1
  /\ UNCHANGED <<peers, pushAck, snapVars, thermVars, prodVars, localSnap, cluster, pushes, job, inv, updates, nextTick>>

\* scheduleJob, 3.-6., with the context that forwardJobToPeer makes on entry.
fwdSchedule(i) ==
  /\ Alive(i)
  /\ inv[i].pc = "FILTERING"
  /\ LET r == inv[i]
         valid == validCandidates(r.view, job, now)
         pool == finalPool(valid, safeCandidates(r.view, job, now))
     IN  IF valid = {}
         THEN inv' = [inv EXCEPT ![i] = NoCandidates([r EXCEPT !.view = EmptyMap])]
         ELSE \E draw \in pool :
                inv' = [inv EXCEPT ![i] =
                          forwardCtx([Decide(r, job, now, draw) EXCEPT !.view = EmptyMap], now)]
  /\ UNCHANGED <<peers, pushAck, snapVars, thermVars, prodVars, now, localSnap, cluster, pushes, job, updates, nextTick>>

\* The peer selected by handler i has no server that accepts connections.
Unreachable(i) == IF inv[i].sel \in Nodes THEN ~boot[inv[i].sel].serving ELSE TRUE

\* forwardJobToPeer: grpc.DialContext returns an error ("dial fail"): the
\* peer is unreachable, and the blocking dial gives up when the context
\* expires or, for an error that is final, before.
fwdDialFail(i) ==
  /\ Alive(i)
  /\ Unreachable(i)
  /\ DialFail(i)

\* forwardJobToPeer: client.SubmitJob returns an error ("remote exec fail")
\* because the context has expired or because the process of the remote
\* handler has ended.
fwdTimeout(i) ==
  /\ Alive(i)
  /\ i + 1 \in DOMAIN inv
  /\ now = inv[i].deadline \/ ~Alive(i + 1)
  /\ ForwardTimeout(i)

\* forwardJobToPeer: the dial succeeds, the peer's server running.
fwdConnect(i) ==
  /\ Len(inv) < MaxFwdHops
  /\ stopForwardSend(i)

\* The views at the start: every node knows itself and its peer.
FwdViews(n) == { v \in RunViews(n) : DOMAIN v = {"localhost"} \cup (Nodes \ {n}) }

FwdInit ==
  /\ now = 0
  /\ localSnap = [n \in Nodes |-> ZeroSnapshot]
  /\ \E va \in FwdViews("A"), vb \in FwdViews("B") :
       cluster = [n \in Nodes |-> IF n = "A" THEN va ELSE vb]
  /\ pushes = {}
  /\ job = NoJob
  /\ inv = <<>>
  /\ updates = 0
  /\ nextTick = [n \in Nodes |-> GossipInterval]
  /\ peers = [n \in Nodes |-> Nodes \ {n}]
  /\ pushAck = [n \in Nodes |-> NoAck]
  /\ SnapIdle
  /\ ThermIdle
  /\ ProdIdle

FwdNext ==
  \/ fwdTick
  \/ \E n \in Nodes \ {RunNode} : stop(n)
  \/ \E j \in Jobs : boot[RunNode].serving /\ runJob(RunNode, j)
  \/ \E i \in 1..MaxHops : Alive(i) /\ TakeView(i)
  \/ \E i \in 1..MaxHops : fwdSchedule(i)
  \/ \E i \in 1..MaxHops, ok \in BOOLEAN : Alive(i) /\ ExecStep(i, ok)
  \/ \E i \in 1..MaxHops : fwdDialFail(i)
  \/ \E i \in 1..MaxHops : fwdConnect(i)
  \/ \E i \in 1..MaxHops : Alive(i) /\ ForwardReply(i)
  \/ \E i \in 1..MaxHops : fwdTimeout(i)

FwdSpec == FwdInit /\ [][FwdNext]_vars

(***************************************************************************)
(* Several submissions of one workload at a time. gRPC serves every        *)
(* SubmitJob call in a goroutine of its own, so the handlers of different  *)
(* submissions interleave freely; inv holds them all, a forwarded handler  *)
(* next to the one that forwarded to it. A forward is followed for the     *)
(* handler entered last; for another one the dial ends with an error.      *)
(***************************************************************************)
\* The run command, or any gRPC client, submits the workload j to node n
\* while earlier submissions may still be in their handlers.
MaxHandlers == 3
submitAgain(n, j) ==
  /\ Len(inv) < MaxHandlers
  /\ job \in {NoJob, j}
  /\ job' = j
  /\ inv' = Append(inv, Received(n))
  /\ UNCHANGED <<peers, pushAck, snapVars, thermVars, prodVars, now, localSnap, cluster, pushes, updates, nextTick>>

\* forwardJobToPeer of the handler entered last: the dial succeeds.
forwardLast(i) ==
  /\ i = Len(inv)
  /\ Len(inv) < MaxHandlers
  /\ ForwardSend(i)

ConcNext ==
  \/ \E n \in Nodes, j \in Jobs : submitAgain(n, j)
  \/ \E i \in 1..MaxHops : TakeView(i)
  \/ \E i \in 1..MaxHops : Schedule(i)
  \/ \E i \in 1..MaxHops, ok \in BOOLEAN : ExecStep(i, ok)
  \/ \E i \in 1..MaxHops : DialFail(i)
  \/ \E i \in 1..MaxHops : forwardLast(i)
  \/ \E i \in 1..MaxHops : ForwardReply(i)
  \/ \E i \in 1..MaxHops : ForwardTimeout(i)

ConcSpec == FwdInit /\ [][ConcNext]_vars

(***************************************************************************)
(* The CPU collector on the clock. Every core runs one process at a time   *)
(* (0 is the idle process, which the probe skips); handle_sched_switch     *)
(* runs on a core when it changes process: it adds now - start_times[prev] *)
(* to cpu_usage[prev], the whole stay at once and at its end, and stamps   *)
(* start_times[next]. pollCPUStats runs every IntervalNS time units.       *)
(***************************************************************************)
MaxCpuTime == 10
Cpus == 1..NumCPUs

\* cpu_usage after LOGIC A for the process prev leaving the CPU at time t.
SwitchOut(usage, starts, prev, t) ==
  IF prev # 0 /\ prev \in DOMAIN starts
  THEN LET delta == t - starts[prev]
       IN  [k \in DOMAIN usage \cup {prev} |->
              IF k = prev
              THEN (IF prev \in DOMAIN usage THEN usage[prev] + delta ELSE delta)
              ELSE usage[k]]
  ELSE usage

\* start_times after LOGIC B for the process next entering the CPU at time t.
SwitchIn(starts, next, t) ==
  IF next # 0
  THEN [k \in DOMAIN starts \cup {next} |-> IF k = next THEN t ELSE starts[k]]
  ELSE starts

\* tracepoint/sched/sched_switch on core c: the process on it leaves and
\* next, which runs on no other core, enters.
sched_switch(c, next) ==
  /\ cpuClean = 0
  /\ next # onCpu[c]
  /\ next # 0 => \A d \in Cpus : onCpu[d] # next
  /\ cpuUsage' = SwitchOut(cpuUsage, startTimes, onCpu[c], now)
  /\ startTimes' = SwitchIn(startTimes, next, now)
  /\ onCpu' = [onCpu EXCEPT ![c] = next]
  /\ UNCHANGED <<meshVars, snapVars, thermVars, memVars, cmdVars, lastCPU, cpuOut, cpuClean>>

\* tracepoint/sched/sched_process_exit for a process, which is on a core as
\* it exits: its entries in both maps are deleted.
sched_process_exit(pid) ==
  /\ cpuClean = 0
  /\ \E c \in Cpus : onCpu[c] = pid
  /\ pid \in DOMAIN startTimes
  /\ cpuUsage' = [k \in DOMAIN cpuUsage \ {pid} |-> cpuUsage[k]]
  /\ startTimes' = [k \in DOMAIN startTimes \ {pid} |-> startTimes[k]]
  /\ UNCHANGED <<meshVars, snapVars, thermVars, memVars, cmdVars, lastCPU, cpuOut, cpuClean, onCpu>>

\* The processes that run on core c: every process is bound to one core.
Pinned(c) == { pid \in Pids : pid % NumCPUs = c % NumCPUs }

\* A time unit passes; a tick of pollCPUStats that is due is served first.
cpuClock ==
  /\ now < MaxCpuTime
  /\ now < (cpuOut.sent + 1) * IntervalNS
  /\ now' = now + 1
  /\ UNCHANGED <<localSnap, cluster, pushes, job, inv, updates, nextTick, peers, pushAck,
                 snapVars, thermVars, prodVars>>

\* for range ticker.C: the tick of pollCPUStats, every IntervalNS.
cpuTick ==
  /\ now = (cpuOut.sent + 1) * IntervalNS
  /\ pollCPUStats

CpuClockNext ==
  \/ cpuClock
  \/ \E c \in Cpus : \E next \in Pinned(c) \cup {0} : sched_switch(c, next)
  \/ \E pid \in Pids : sched_process_exit(pid)
  \/ cpuTick

CpuClockSpec == CpuInit /\ [][CpuClockNext]_vars

\* ------------------------------------------------------------------- claims

\* The invocations in which scheduleJob has got past its selection step.
Decided(r) == r.pc \notin {"RECEIVED", "FILTERING"}

\* The invocations that have called executeDockerContainer.
Executors == { i \in DOMAIN inv : inv[i].execCalls > 0 }

\* C1: for one job submission the executor is called at most once in the
\* whole mesh, only by an invocation whose own selection was "localhost", and
\* no invocation calls the executor or forwards a second time, whatever
\* failed.
C1_ExecutedAtMostOnce ==
  /\ Cardinality(Executors) <= 1
  /\ \A i \in DOMAIN inv :
       /\ inv[i].execCalls + inv[i].fwdCalls <= 1
       /\ inv[i].execCalls > 0 => inv[i].sel = "localhost"
       /\ inv[i].container # "none" => inv[i].sel = "localhost"

\* C1 witness: the job ran on a node further down the chain although the
\* first forwarder had already given up on its call.
C1_Witness ==
  /\ Len(inv) >= 2
  /\ inv[1].pc = "FORWARD_FAILED"
  /\ \E i \in 2..Len(inv) : inv[i].container = "exited"

\* C2: every admitted entry has cpu + req_cpu < 95 and mem + req_mem < 90,
\* and an entry with cpu + req_cpu = 95 or mem + req_mem = 90 is not admitted.
C2_StrictHeadroom ==
  \A i \in DOMAIN inv :
    LET r == inv[i]
        view == cluster[r.node]
    IN  Decided(r) =>
          /\ \A ip \in r.valid \cup r.safe \cup r.pool :
               /\ view[ip].Snapshot.Cpu + job.ReqCpu < 95
               /\ view[ip].Snapshot.Mem + job.ReqMem < 90
          /\ \A ip \in DOMAIN view :
               (\/ view[ip].Snapshot.Cpu + job.ReqCpu = 95
                \/ view[ip].Snapshot.Mem + job.ReqMem = 90) =>
                 /\ ip \notin r.valid
                 /\ r.sel # ip

\* C2 witness: a decision that admitted one entry while a live entry sat
\* exactly on the CPU boundary and another exactly on the memory boundary.
C2_Witness ==
  /\ Len(inv) = 1
  /\ Decided(inv[1])
  /\ inv[1].valid # {}
  /\ \E a, b \in DOMAIN cluster[SchedNode] :
       /\ now - cluster[SchedNode][a].LastSeen <= NodeTTL
       /\ now - cluster[SchedNode][b].LastSeen <= NodeTTL
       /\ cluster[SchedNode][a].Snapshot.Cpu + job.ReqCpu = 95
       /\ cluster[SchedNode][a].Snapshot.Mem + job.ReqMem < 90
       /\ cluster[SchedNode][b].Snapshot.Mem + job.ReqMem = 90
       /\ cluster[SchedNode][b].Snapshot.Cpu + job.ReqCpu < 95

\* C3: an entry older than NodeTTL at the decision is in no pool and is not
\* selected; an entry of age at most NodeTTL with headroom is admitted.
C3_StaleExcluded ==
  \A i \in DOMAIN inv :
    LET r == inv[i]
        view == cluster[r.node]
    IN  Decided(r) =>
          \A ip \in DOMAIN view :
            /\ now - view[ip].LastSeen > NodeTTL =>
                 /\ ip \notin r.valid \cup r.safe \cup r.pool
                 /\ r.sel # ip
            /\ (/\ now - view[ip].LastSeen <= NodeTTL
                /\ view[ip].Snapshot.Cpu + job.ReqCpu < 95
                /\ view[ip].Snapshot.Mem + job.ReqMem < 90) => ip \in r.valid

\* C3 witness: a decision over a view holding an entry with headroom that is
\* one second past NodeTTL and an admitted entry that is exactly NodeTTL old.
C3_Witness ==
  /\ Len(inv) = 1
  /\ Decided(inv[1])
  /\ \E a \in DOMAIN cluster[SchedNode] :
       /\ now - cluster[SchedNode][a].LastSeen = NodeTTL + 1
       /\ cluster[SchedNode][a].Snapshot.Cpu + job.ReqCpu < 95
       /\ cluster[SchedNode][a].Snapshot.Mem + job.ReqMem < 90
  /\ \E b \in inv[1].valid : now - cluster[SchedNode][b].LastSeen = NodeTTL

\* C4: whenever "localhost" is in the final pool the selection is
\* "localhost".
C4_LocalBias ==
  \A i \in DOMAIN inv :
    (Decided(inv[i]) /\ "localhost" \in inv[i].pool) => inv[i].sel = "localhost"

\* C4 witness: localhost selected out of a pool that also holds two peers.
C4_Witness ==
  /\ Len(inv) = 1
  /\ inv[1].pool = {"localhost", "B", "C"}
  /\ inv[1].sel = "localhost"
  /\ inv[1].pc = "EXECUTING"

\* C5: the selection is a member of safe when safe is not empty and of valid
\* otherwise; a feasible WARM localhost is not selected when a feasible live
\* peer is SAFE.
C5_ThermalPriority ==
  \A i \in DOMAIN inv :
    LET r == inv[i]
        view == cluster[r.node]
        Feasible(ip) ==
          /\ ip \in DOMAIN view
          /\ now - view[ip].LastSeen <= NodeTTL
          /\ view[ip].Snapshot.Cpu + job.ReqCpu < 95
          /\ view[ip].Snapshot.Mem + job.ReqMem < 90
    IN  (Decided(r) /\ r.pc # "REJECTED") =>
          /\ r.safe # {} => r.sel \in r.safe
          /\ r.safe = {} => r.sel \in r.valid
          /\ (/\ Feasible("localhost")
              /\ view["localhost"].Snapshot.TempStatus = "WARM"
              /\ \E ip \in DOMAIN view \ {"localhost"} :
                   Feasible(ip) /\ view[ip].Snapshot.TempStatus = "SAFE")
             => r.sel # "localhost"

\* C5 witness: a WARM localhost with headroom was passed over for a SAFE peer.
C5_Witness ==
  /\ Len(inv) = 1
  /\ "localhost" \in inv[1].valid
  /\ cluster[SchedNode]["localhost"].Snapshot.TempStatus = "WARM"
  /\ inv[1].sel \in {"B", "C"}
  /\ cluster[SchedNode][inv[1].sel].Snapshot.TempStatus = "SAFE"
  /\ inv[1].pc = "DIALING"

\* C6: safe is a subset of valid, and an admitted entry is in safe exactly
\* when its temp_status is "SAFE" or empty.
C6_SafeWithinValid ==
  \A i \in DOMAIN inv :
    LET r == inv[i]
        view == cluster[r.node]
    IN  Decided(r) =>
          /\ r.safe \subseteq r.valid
          /\ \A ip \in r.valid :
               ip \in r.safe <=> view[ip].Snapshot.TempStatus \in {"SAFE", ""}

\* C6 witness: three admitted entries, one SAFE, one with the empty status,
\* both in safe, and one HOT left out of safe.
C6_Witness ==
  /\ Len(inv) = 1
  /\ Cardinality(inv[1].valid) = 3
  /\ Cardinality(inv[1].safe) = 2
  /\ \E a, b, c \in inv[1].valid :
       /\ cluster[SchedNode][a].Snapshot.TempStatus = "SAFE"
       /\ cluster[SchedNode][b].Snapshot.TempStatus = ""
       /\ cluster[SchedNode][c].Snapshot.TempStatus = "HOT"
       /\ {a, b} = inv[1].safe

\* C7: exactly the decisions that admit no entry end REJECTED; such an
\* invocation has called neither the executor nor a peer, forwards to no
\* one, and its Ack is msg="Failed" with an error.
C7_NoCapacity ==
  \A i \in DOMAIN inv :
    LET r == inv[i]
    IN  /\ Decided(r) => (r.valid = {} <=> r.pc = "REJECTED")
        /\ r.pc = "REJECTED" =>
             /\ r.execCalls = 0
             /\ r.fwdCalls = 0
             /\ r.container = "none"
             /\ r.err
             /\ r.ack = [Msg |-> "Failed", ForwardedTo |-> ""]
             /\ i = Len(inv)

\* C7 witness: a job rejected by a node whose view held its own live entry
\* and a live peer entry, neither with headroom.
C7_Witness ==
  \E i \in DOMAIN inv :
    /\ inv[i].pc = "REJECTED"
    /\ DOMAIN cluster[inv[i].node] = {"localhost"} \cup targetPeers(inv[i].node)
    /\ \A ip \in DOMAIN cluster[inv[i].node] :
         now - cluster[inv[i].node][ip].LastSeen <= NodeTTL

\* C8 as stated: after a successful forward to p the reported runner is p's
\* address exactly when the remote replied "localhost", and is the remote's
\* forwarded_to otherwise.
C8_RunnerIsPeerIffLocalhost ==
  \A i \in DOMAIN inv :
    (inv[i].pc = "DONE" /\ inv[i].fwdCalls = 1) =>
      /\ inv[i].target = inv[i].sel <=> inv[i].resp.ForwardedTo = "localhost"
      /\ inv[i].resp.ForwardedTo # "localhost" => inv[i].target = inv[i].resp.ForwardedTo

\* C8 amended: after a successful forward to p the reported runner is p's
\* address if the remote replied "localhost" and the remote's forwarded_to
\* unchanged otherwise (which is p's address again when the job came back to
\* p further down the chain); the first caller sees "localhost" only if the
\* node it submitted to ran the executor itself.
C8_RunnerTranslated ==
  /\ \A i \in DOMAIN inv :
       (inv[i].pc = "DONE" /\ inv[i].fwdCalls = 1) =>
         /\ i + 1 \in DOMAIN inv
         /\ inv[i].resp = inv[i + 1].ack
         /\ inv[i].resp.ForwardedTo = "localhost" => inv[i].target = inv[i].sel
         /\ inv[i].resp.ForwardedTo # "localhost" =>
              inv[i].target = inv[i].resp.ForwardedTo
         /\ inv[i].ack.ForwardedTo = inv[i].target
         /\ inv[i].target # "localhost"
  /\ (Len(inv) >= 1 /\ inv[1].ack.ForwardedTo = "localhost") =>
       /\ inv[1].execCalls = 1
       /\ inv[1].container = "exited"

\* C8 witness: a chain of three nodes' invocations in which the last one ran
\* the job and the first caller was told the address of the runner.
C8_Witness ==
  /\ Len(inv) >= 3
  /\ inv[1].pc = "DONE"
  /\ inv[2].pc = "DONE"
  /\ inv[3].container = "exited"
  /\ inv[2].resp.ForwardedTo = "localhost"
  /\ inv[2].target = inv[3].node
  /\ inv[1].target = inv[3].node

\* C9: an Ack with msg="Completed Successfully" exists only once scheduleJob
\* has returned without error and the job's container has exited, on this
\* node or on a node further down the forward chain.
C9_SuccessAfterExit ==
  \A i \in DOMAIN inv :
    inv[i].ack.Msg = "Completed Successfully" =>
      /\ inv[i].pc = "DONE"
      /\ ~inv[i].err
      /\ \E k \in i..Len(inv) :
           /\ inv[k].container = "exited"
           /\ inv[k].pc = "DONE"
           /\ \A m \in i..(k - 1) : inv[m].pc = "DONE" /\ inv[m].fwdCalls = 1

\* C9 witness: the first caller got its success Ack for a job that ran at
\* the end of a forward.
C9_Witness ==
  /\ Len(inv) >= 2
  /\ inv[1].ack.Msg = "Completed Successfully"
  /\ inv[1].container = "none"
  /\ inv[Len(inv)].container = "exited"

\* C10: an invocation that forwards ends DONE or FORWARD_FAILED without ever
\* calling the executor, dialling again or changing its selection; it ends
\* DONE only on the remote's success and FORWARD_FAILED with the Ack
\* msg="Failed", and a failed forward stays as it is.
C10_NoRetryStep ==
  \A i \in DOMAIN inv :
    /\ inv[i].pc \in {"DIALING", "FORWARDING"} =>
         /\ inv'[i].pc \in {"DIALING", "FORWARDING", "DONE", "FORWARD_FAILED"}
         /\ inv'[i].sel = inv[i].sel
         /\ inv'[i].execCalls = 0
         /\ inv'[i].fwdCalls = 1
         /\ inv'[i].container = "none"
         /\ inv'[i].pc = "DONE" =>
              /\ i + 1 \in DOMAIN inv
              /\ inv[i + 1].pc = "DONE"
         /\ inv'[i].pc = "FORWARD_FAILED" =>
              /\ inv'[i].err
              /\ inv'[i].ack = [Msg |-> "Failed", ForwardedTo |-> ""]
    /\ inv[i].pc = "FORWARD_FAILED" => inv'[i] = inv[i]
    /\ (inv[i].pc = "FORWARDING" /\ inv[i + 1].err /\ inv'[i].pc # "FORWARDING")
         => inv'[i].pc = "FORWARD_FAILED"

C10_NoRetryAfterForwardFailure == [][C10_NoRetryStep]_vars

\* C10 witness: a forward failed although the forwarder's own entry was an
\* admitted candidate too, and the forwarder ran nothing.
C10_Witness ==
  \E i \in DOMAIN inv :
    /\ inv[i].pc = "FORWARD_FAILED"
    /\ "localhost" \in inv[i].valid
    /\ inv[i].sel \in inv[i].valid
    /\ inv[i].sel # "localhost"
    /\ inv[i].execCalls = 0

\* The calls of the local executor in the order of the claim, after the
\* creation of the runtime client.
ExecOrder == <<"client", "pull", "create", "start", "wait">>
ExecPos(step) == CHOOSE k \in DOMAIN ExecOrder : ExecOrder[k] = step
\* The state of the container when the call `step` is about to be made.
ContainerBefore(step) ==
  CASE step = "start" -> "created"
    [] step = "wait" -> "running"
    [] OTHER -> "none"

\* C11: the executor calls pull, create, start, wait in this order (after
\* creating its client); when a call fails the invocation ends there with
\* an error, the later calls not made and the container left as it was, and
\* SubmitJob answers "Failed"; it ends successfully only from the wait call,
\* with the container exited, all four calls having succeeded.
C11_ExecutorStep ==
  \A i \in DOMAIN inv :
    LET r == inv[i]
        q == inv'[i]
    IN  /\ (r.pc # "EXECUTING" /\ q.pc = "EXECUTING")
             => (q.step = ExecOrder[1] /\ q.container = "none")
        /\ (r.pc = "EXECUTING")
             => \/ q = r
                \/ /\ q.pc = "EXECUTING"
                   /\ ExecPos(r.step) < Len(ExecOrder)
                   /\ q.step = ExecOrder[ExecPos(r.step) + 1]
                   /\ r.container = ContainerBefore(r.step)
                   /\ q.container = ContainerBefore(q.step)
                \/ /\ q.pc = "EXEC_FAILED"
                   /\ q.step = r.step
                   /\ q.container = r.container
                   /\ q.err
                   /\ q.ack.Msg = "Failed"
                \/ /\ q.pc = "DONE"
                   /\ r.step = ExecOrder[Len(ExecOrder)]
                   /\ r.container = "running"
                   /\ q.container = "exited"
                   /\ ~q.err
                   /\ q.ack = [Msg |-> "Completed Successfully", ForwardedTo |-> "localhost"]
        /\ (r.pc = "EXEC_FAILED") => q = r
C11_ExecutorOrder == [][C11_ExecutorStep]_vars
\* The start call has failed: the container stays created, wait is not made.
C11_Witness ==
  \E i \in DOMAIN inv :
    /\ inv[i].pc = "EXEC_FAILED"
    /\ inv[i].step = "start"
    /\ inv[i].container = "created"
    /\ inv[i].ack.Msg = "Failed"

\* C12: whatever values the CPU updater has been given, the cpu_percent of
\* the Local Snapshot is within 0..95, and once the updater has stored the
\* value v of its last call the field holds 95 when v > 95 and v otherwise.
C12_CpuClamped ==
  LET stored == localSnap[SnapNode].CPUPercent
      v == proc.cpu.v
  IN  /\ 0 <= stored
      /\ stored <= 95
      /\ (fed.CPU # {} /\ proc.cpu.pc \in {"unlock", "recv"})
           => stored = IF v > 95 THEN 95 ELSE v
\* 120 was passed after 40 and 95 is what the snapshot holds.
C12_Witness ==
  /\ 40 \in fed.CPU
  /\ proc.cpu = [pc |-> "recv", v |-> 120]
  /\ localSnap[SnapNode].CPUPercent = 95

\* The thermal triple of a snapshot and of a reading.
TempTriple(m) == <<m.TempC, m.TempStatus, m.ZoneName>>
ReadingTriple(r) == <<r.TempC, r.Status, r.Zone>>
\* Read has copied all the fields.
ReadReturned == proc.tick.pc \in {"runlock", "got"}

\* C13: in every interleaving of the steps of UpdateCPU, UpdateMem,
\* UpdateTemp and Read, the (temp_c, temp_status, zone_name) triple that Read
\* returns is the initial triple or the triple passed to one UpdateTemp call.
C13_ReadNotTorn ==
  ReadReturned =>
    TempTriple(proc.tick.current) \in
      {TempTriple(ZeroSnapshot)} \cup { ReadingTriple(r) : r \in fed.Temp }
\* Read returned one reading whole while UpdateTemp was entered with another.
C13_Witness ==
  /\ proc.tick.pc = "got"
  /\ proc.temp.pc = "lock"
  /\ ReadingTriple(proc.temp.r) # TempTriple(proc.tick.current)
  /\ TempTriple(proc.tick.current) \in { ReadingTriple(r) : r \in fed.Temp }
  /\ Cardinality(fed.Temp) = 2

\* C14 as stated: every field of the tuple Read returns holds a value that
\* was passed to the updater of that field.
C14_OnlyPassedValues ==
  ReadReturned =>
    /\ proc.tick.current.CPUPercent \in fed.CPU
    /\ proc.tick.current.MemPercent \in fed.Mem
    /\ proc.tick.current.TempC \in { r.TempC : r \in fed.Temp }
    /\ proc.tick.current.TempStatus \in { r.Status : r \in fed.Temp }
    /\ proc.tick.current.ZoneName \in { r.Zone : r \in fed.Temp }

\* C14, amended: every field of the tuple Read returns holds its initial
\* zero value or the value stored by a call of that field's updater, which
\* for cpu_percent is the value passed, cut down to 95 when it is above.
C14_InitialOrStoredValues ==
  ReadReturned =>
    /\ proc.tick.current.CPUPercent \in
         {ZeroSnapshot.CPUPercent} \cup { IF v > 95 THEN 95 ELSE v : v \in fed.CPU }
    /\ proc.tick.current.MemPercent \in {ZeroSnapshot.MemPercent} \cup fed.Mem
    /\ proc.tick.current.TempC \in {ZeroSnapshot.TempC} \cup { r.TempC : r \in fed.Temp }
    /\ proc.tick.current.TempStatus \in
         {ZeroSnapshot.TempStatus} \cup { r.Status : r \in fed.Temp }
    /\ proc.tick.current.ZoneName \in
         {ZeroSnapshot.ZoneName} \cup { r.Zone : r \in fed.Temp }
\* Read returned 95 for the only CPU value passed, 120, the memory value
\* passed, and the thermal fields of before the first reading.
C14_Witness ==
  /\ proc.tick.pc = "got"
  /\ fed.CPU = {120}
  /\ fed.Mem = {60}
  /\ fed.Temp = {}
  /\ proc.tick.current =
       [CPUPercent |-> 95, MemPercent |-> 60, TempC |-> 0, TempStatus |-> "", ZoneName |-> ""]

\* The pushes that end in a step, and the step being the handling of m by
\* the Push handler of m.to (a push that fails leaves the views alone).
Handled(m) == m \in pushes /\ m \notin pushes' /\ cluster' # cluster

\* C15: the Push handler, handling snapshot m.data from sender m.from at
\* time now, sets the entry of the receiver's Cluster View under the sender's
\* address to exactly (m.data, now) whatever was there, leaves every other
\* entry of that view and every other view unchanged, and replies Msg "OK";
\* the last_seen of an entry never decreases, so a second push of the same
\* snapshot leaves that snapshot with a last_seen at least as late.
C15_PushStep ==
  /\ \A m \in pushes :
       Handled(m) =>
         /\ DOMAIN cluster'[m.to] = DOMAIN cluster[m.to] \cup {m.from}
         /\ cluster'[m.to][m.from] = [Snapshot |-> m.data, LastSeen |-> now]
         /\ \A k \in DOMAIN cluster[m.to] \ {m.from} :
              cluster'[m.to][k] = cluster[m.to][k]
         /\ \A n \in Nodes \ {m.to} : cluster'[n] = cluster[n]
         /\ pushAck'[m.to].Msg = "OK"
  /\ \A n \in Nodes : \A k \in DOMAIN cluster[n] :
       /\ k \in DOMAIN cluster'[n]
       /\ cluster'[n][k].LastSeen >= cluster[n][k].LastSeen
C15_PushSetsEntry == [][C15_PushStep]_vars
\* The push of a sender's second tick, carrying the same snapshot as that of
\* its first tick, has been handled: the entry holds that snapshot with the
\* time of this handling, and the handler has replied OK.
C15_Witness ==
  \E n \in Nodes : \E k \in DOMAIN cluster[n] \ {"localhost"} :
    /\ now = GossipInterval
    /\ cluster[n][k] = [Snapshot |-> protoData(ZeroSnapshot), LastSeen |-> now]
    /\ pushAck[n].Msg = "OK"
    /\ "localhost" \in DOMAIN cluster[n]
    /\ cluster[n]["localhost"].LastSeen = 0
    /\ \A m \in pushes : m.from # k

\* The nodes that push to node n: those started with n among their peers.
Senders(n) == { x \in Nodes : n \in broadcastMetrics(targetPeers(x)) }

\* C16: no step removes a key from a Cluster View, however old its entry,
\* and the keys of a view are always among "localhost" and the addresses of
\* the senders of the pushes the node has handled.
C16_KeysStayStep ==
  \A n \in Nodes : DOMAIN cluster[n] \subseteq DOMAIN cluster'[n]
C16_KeysBound ==
  \A n \in Nodes : DOMAIN cluster[n] \subseteq {"localhost"} \cup Senders(n)
C16_KeysNeverRemoved == [][C16_KeysStayStep]_vars /\ []C16_KeysBound
\* An entry older than NodeTTL is still in the view, after a later tick of
\* the node that holds it.
C16_Witness ==
  \E n \in Nodes : \E k \in DOMAIN cluster[n] :
    /\ now - cluster[n][k].LastSeen > NodeTTL
    /\ cluster[n]["localhost"].LastSeen > cluster[n][k].LastSeen

\* C17: the map that Snapshot returns to scheduleJob is the Cluster View of
\* that moment and no later step changes it, and the sets of admitted
\* entries of the decision are computed from that copy alone, whatever
\* pushes the node has handled in between.
C17_CopyStep ==
  \A i \in DOMAIN inv :
    LET r == inv[i]
        q == inv'[i]
    IN  /\ (r.pc = "RECEIVED" /\ q.pc = "FILTERING") => q.view = cluster[r.node]
        /\ (r.pc = "FILTERING" /\ q.pc = "FILTERING") => q.view = r.view
        /\ (r.pc = "FILTERING" /\ q.pc # "FILTERING")
             => /\ q.valid = validCandidates(r.view, job, now)
                /\ q.safe = safeCandidates(r.view, job, now)
C17_DecisionOnOneCopy == [][C17_CopyStep]_vars
\* A push handled after the copy was taken has changed the Cluster View in
\* a way that would change the admitted entries; the copy is as it was.
C17_Witness ==
  \E i \in DOMAIN inv :
    /\ inv[i].pc = "FILTERING"
    /\ DOMAIN inv[i].view # DOMAIN cluster[inv[i].node]
    /\ validCandidates(inv[i].view, job, now)
         # validCandidates(cluster[inv[i].node], job, now)

\* C18: a step that changes a Cluster View is the gossip tick of its node,
\* which writes the key "localhost" and no other, or the handling of a push
\* sent to its node; the steps of SubmitJob (entry, scheduling, execution,
\* forwarding, return) change no Cluster View.
C18_ViewWriterStep ==
  /\ \A n \in Nodes :
       cluster'[n] # cluster[n] =>
         \/ /\ nextTick'[n] # nextTick[n]
            /\ DOMAIN cluster'[n] = DOMAIN cluster[n] \cup {"localhost"}
            /\ \A k \in DOMAIN cluster[n] \ {"localhost"} :
                 cluster'[n][k] = cluster[n][k]
         \/ /\ nextTick' = nextTick
            /\ \E m \in pushes \ pushes' : m.to = n
  /\ (inv' # inv \/ job' # job) => cluster' = cluster
C18_OnlyPushAndTickWrite == [][C18_ViewWriterStep]_vars
\* A job has been scheduled, forwarded and run by the peer while both views
\* hold their own entry and the entry of the other node.
C18_Witness ==
  /\ Len(inv) >= 2
  /\ inv[1].pc = "DONE"
  /\ inv[2].execCalls = 1
  /\ \A n \in Nodes : DOMAIN cluster[n] = {"localhost"} \cup (Nodes \ {n})

\* The configured peers of n that are not blank.
NonBlankPeers(n) == { ip \in targetPeers(n) : ip \notin {"", " "} }

\* C19: the tick of node n writes the Local Snapshot value it has just read
\* into its view under "localhost" and starts exactly one new push per
\* non-blank peer, carrying that value, cancelling none in flight; while a
\* push of a tick is in flight the view holds what the tick wrote; a push
\* that fails changes nothing but its own end; and a tick that is due can
\* be taken whatever pushes are in flight.
C19_TickStep ==
  /\ \A n \in Nodes :
       nextTick'[n] # nextTick[n] =>
         LET data == protoData(Read(localSnap[n]))
         IN  /\ cluster'[n]["localhost"] = [Snapshot |-> data, LastSeen |-> now]
             /\ pushes \subseteq pushes'
             /\ pushes' \ pushes =
                  { [from |-> n, to |-> ip, data |-> data, sent |-> now] :
                      ip \in NonBlankPeers(n) }
             /\ Cardinality(pushes' \ pushes) = Cardinality(NonBlankPeers(n))
             /\ nextTick'[n] = now + GossipInterval
  /\ \A m \in pushes :
       (m \notin pushes' /\ cluster' = cluster) =>
         /\ pushes' = pushes \ {m}
         /\ nextTick' = nextTick
         /\ localSnap' = localSnap
C19_TickState ==
  /\ \A m \in pushes :
       /\ "localhost" \in DOMAIN cluster[m.from]
       /\ cluster[m.from]["localhost"] = [Snapshot |-> m.data, LastSeen |-> m.sent]
  /\ \A n \in Nodes : nextTick[n] = now => ENABLED GossipTick(n)
C19_TickWritesThenPushes == [][C19_TickStep]_vars /\ []C19_TickState
\* Of the two pushes of a node's second tick, the one to the address where
\* no node runs has failed and the one to the other node is still on its
\* way, a second after the tick.
C19_Witness ==
  \E m \in pushes :
    /\ m.to \in Nodes
    /\ m.sent = GossipInterval
    /\ now = m.sent + 1
    /\ ~ \E x \in pushes : x.from = m.from /\ x.to = DownPeer

\* The reading the claim prescribes for a temperature of t millidegrees:
\* temp_c = t / 1000, HOT above 80, WARM above 60 up to 80, SAFE up to 60.
\* (t / 1000 is whole + frac / 1000 with 0 <= frac < 1000.)
ClaimedTempC(t) == [whole |-> t \div 1000, frac |-> t % 1000]
ClaimedStatus(t) ==
  IF t > 80 * 1000 THEN "HOT"
  ELSE IF t > 60 * 1000 THEN "WARM"
  ELSE "SAFE"
\* A tick of the poller that sends a reading.
PollSends == polls' # polls /\ bpfMaps.zoneCount # 0

\* C20 as stated: for every temperature mC the kernel reports, the reading
\* sent by the poller has temp_c = mC / 1000 and the status HOT when temp_c
\* > 80, WARM when 60 < temp_c <= 80, SAFE when temp_c <= 60.
C20_ClassifyStep ==
  PollSends =>
    /\ emitted'.TempC = ClaimedTempC(tracepoint.temp)
    /\ emitted'.Status = ClaimedStatus(tracepoint.temp)
C20_ReadingOfEveryTemperature == [][C20_ClassifyStep]_vars

\* C20 for the temperatures that are not below zero: the reading is as the
\* claim says, exactly 80 degrees being WARM and exactly 60 degrees SAFE.
C20_FromZeroStep ==
  (PollSends /\ tracepoint.temp >= 0) =>
    /\ emitted'.TempC = ClaimedTempC(tracepoint.temp)
    /\ emitted'.Status = ClaimedStatus(tracepoint.temp)
C20_ReadingFromZero == [][C20_FromZeroStep]_vars
\* The reading of exactly 80 degrees has been sent, and it is WARM.
C20_Witness ==
  /\ tracepoint.temp = 80000
  /\ emitted.TempC = [whole |-> 80, frac |-> 0]
  /\ emitted.Status = "WARM"

(***************************************************************************)
(* C21. Claim: on each thermal producer tick on which no zone has been     *)
(* observed yet, the producer emits {temp_c = 0, status = "UNAVAILABLE",    *)
(* zone = ""}. pollThermalStats does `continue` on such a tick, so the      *)
(* claim as stated fails; what holds is that such a tick sends nothing.    *)
(***************************************************************************)
PollUnobserved == polls' # polls /\ bpfMaps.zoneCount = 0

UnavailableReading ==
  [TempC |-> TempCOf(ToU32(0)), Status |-> "UNAVAILABLE", Zone |-> ""]

C21_UnavailableStep ==
  PollUnobserved =>
    /\ tempSent' = tempSent + 1
    /\ emitted' = UnavailableReading

C21_SilentStep ==
  PollUnobserved => UNCHANGED <<tempSent, emitted, tempChan, localSnap>>

TempStatuses == {"SAFE", "WARM", "HOT", ""}

C23_ClosedStep ==
  (cpuClean' > 0) =>
    /\ cpuOut'.closed
    /\ (cpuClean > 0 => cpuOut'.sent = cpuOut.sent)

\* C23 as stated: once cleanup has been invoked the stream is closed and
\* no further value is sent on it.
C23_CleanupClosesStream == [][C23_ClosedStep]_vars

C23_SecondStep ==
  (cpuClean > 0 /\ cpuClean' # cpuClean) => UNCHANGED <<cpuUsage, lastCPU, cpuOut>>

\* C23, the part that holds: a second invocation of cleanup changes nothing
\* but the count of invocations; and the stream is never closed.
C23_SecondCleanupNoEffect == [][C23_SecondStep]_vars /\ [](~cpuOut.closed)

\* Cleanup has been invoked twice after values were sent; the stream is
\* open and the producer can send its next value.
C23_Witness ==
  /\ cpuClean = 2
  /\ cpuOut.sent > 0
  /\ cpuOut.v > 0
  /\ ~cpuOut.closed
  /\ ENABLED pollCPUStats

(***************************************************************************)
(* C24. On each tick the CPU producer emits                                *)
(* sum_delta / (interval_ns * num_cores) * 100, where sum_delta is the sum *)
(* over every pid in the counter map of max(0, total_ns - previous[pid]),  *)
(* and sets previous[pid] to total_ns for each pid seen; a pid absent from *)
(* the map contributes nothing, and a counter lower than previous[pid]     *)
(* contributes 0.                                                          *)
(***************************************************************************)
Max0(x) == IF x > 0 THEN x ELSE 0

\* The contribution of one pid as the claim states it.
ClaimedDelta(pid) ==
  IF pid \in DOMAIN cpuUsage
  THEN Max0(cpuUsage[pid] - (IF pid \in DOMAIN lastCPU THEN lastCPU[pid] ELSE 0))
  ELSE 0

ClaimedPercent == ((ClaimedDelta(1) + ClaimedDelta(2)) * 100) \div (IntervalNS * NumCPUs)

C24_TickStep ==
  (cpuOut'.sent # cpuOut.sent /\ cpuClean = 0) =>
    /\ cpuOut'.v = ClaimedPercent
    /\ \A pid \in DOMAIN cpuUsage : lastCPU'[pid] = cpuUsage[pid]
    /\ \A pid \in DOMAIN lastCPU \ DOMAIN cpuUsage : lastCPU'[pid] = lastCPU[pid]
    /\ DOMAIN lastCPU' = DOMAIN lastCPU \cup DOMAIN cpuUsage

\* C24: every tick of the CPU producer sends the percentage of the summed
\* growth of the counters and records the counters it has seen.
C24_TickEmitsSummedDelta == [][C24_TickStep]_vars

\* A tick has been served with one pid reused (its counter below the value
\* recorded for it, contributing 0) and the other pid gone from the map,
\* and the value sent was 0.
C24_Witness ==
  /\ cpuOut.sent = 2
  /\ cpuOut.v = 0
  /\ DOMAIN lastCPU = {1, 2}
  /\ DOMAIN cpuUsage = {1}
  /\ lastCPU[1] = 1
  /\ lastCPU[2] = 4

(***************************************************************************)
(* C25. Claim: the mem_percent stored in the Local Snapshot always lies in *)
(* [0, 100] and equals (MemTotal - MemAvailable) / MemTotal * 100 of the   *)
(* latest successful memory read.                                          *)
(***************************************************************************)
\* C25 as stated, the range (which the claimed quotient, a share of
\* MemTotal, cannot leave): mem_percent lies in [0, 100].
C25_MemPercentInRange ==
  /\ localSnap[SnapNode].MemPercent >= 0
  /\ localSnap[SnapNode].MemPercent <= 100

C25_StallStep ==
  (memOut'.sent # memOut.sent) =>
    /\ memOut'.v * MemInterval = (memStall.total - memLast) * 100
    /\ memLast' = memStall.total

\* C25, what the collector does: the value sent on a tick is the time
\* spent in direct reclaim that was added to the counter since the last
\* tick, as a percentage of the interval; the Local Snapshot holds 0 or a
\* value sent, never a negative one.
C25_StallShareOfInterval ==
  [][C25_StallStep]_vars /\ [](localSnap[SnapNode].MemPercent >= 0)

\* Two processes were in direct reclaim during the same interval, and the
\* Local Snapshot holds 200 percent.
C25_Witness ==
  /\ memOut.sent = 1
  /\ memStall.total = 2 * MemInterval
  /\ localSnap[SnapNode].MemPercent = 200

(***************************************************************************)
(* C26. Claim: the run command exits with code 0 only when SubmitJob       *)
(* succeeded, and exits non-zero whenever scheduling or execution failed   *)
(* (NoCapacity, forward failure, executor failure, or failure to reach the *)
(* local node).                                                            *)
(***************************************************************************)
\* C26 as stated: the process has exit code 0 exactly when it printed the
\* result of a SubmitJob that returned no error.
C26_ExitCodeTellsOutcome ==
  runCmd.exited => (runCmd.code = 0 <=> runCmd.out = ">> Result")

\* C26, what the command does: the exit code is 0 on every path through
\* runJob, whatever SubmitJob returned, and non-zero only when the
\* arguments were refused; ">> Result" is printed only for a SubmitJob
\* that returned no error.
C26_ExitZeroAfterRunJob ==
  runCmd.exited =>
    /\ (runCmd.code = 0 <=> runCmd.out # "usage")
    /\ (runCmd.out = ">> Result" =>
          inv # <<>> /\ inv[1].pc = "DONE" /\ ~inv[1].err)

\* The node answered NoCapacity, the command printed ">> Job Failed" and
\* its exit code is 0.
C26_Witness ==
  /\ runCmd.exited
  /\ runCmd.code = 0
  /\ runCmd.out = ">> Job Failed"
  /\ inv # <<>>
  /\ inv[1].pc = "REJECTED"
  /\ inv[1].err

(***************************************************************************)
(* C27. Claim: if the RPC server cannot start (port cannot be bound) or    *)
(* any producer fails to initialise, the peer command reports the failure  *)
(* at startup and the node process exits non-zero without entering the     *)
(* gossip loop.                                                            *)
(***************************************************************************)
\* C27 as stated: a node whose start-up has had a failure has printed it,
\* has exited with a non-zero code, and has made no gossip tick.
C27_StartupFailureExitsNonZero ==
  \A n \in Nodes :
    boot[n].failed # {} =>
      /\ boot[n].out # {}
      /\ boot[n].pc = "exited"
      /\ boot[n].code # 0
      /\ cluster[n] = EmptyMap

\* C27, what the command does: every failure is printed; a collector that
\* fails to start ends the process before the loop, with exit code 0; a
\* port that cannot be bound leaves the process running without a server;
\* the exit code is 0 in every case.
C27_StartupFailureReported ==
  \A n \in Nodes :
    /\ boot[n].code = 0
    /\ ("bind" \in boot[n].failed =>
          "Error binding port" \in boot[n].out /\ ~boot[n].serving)
    /\ (boot[n].failed \ {"bind"} # {} =>
          /\ "init failed" \in boot[n].out
          /\ boot[n].pc = "exited"
          /\ "localhost" \notin DOMAIN cluster[n])

\* A node could not bind its port; it is in its loop, has made a gossip
\* tick and has no server.
C27_Witness ==
  \E n \in Nodes :
    /\ boot[n].failed = {"bind"}
    /\ boot[n].pc = "loop"
    /\ ~boot[n].serving
    /\ "localhost" \in DOMAIN cluster[n]

(***************************************************************************)
(* C28. Claim: on a node started with an empty peer set, "localhost" is    *)
(* the only key that ever appears in its Cluster View, and a job submitted *)
(* while localhost fails the feasibility filter fails with NoCapacity.     *)
(* Push takes the key from the caller, whoever the caller is: the claim    *)
(* holds for a node that no other node has in its peer list.               *)
(***************************************************************************)
\* scheduleJob of the job submitted to LoneNode goes from its filter loop to
\* its decision.
LoneDecides ==
  /\ inv # <<>>
  /\ inv[1].pc = "FILTERING"
  /\ inv'[1].pc # "FILTERING"

\* The node's own entry does not pass the filter (or is not there).
LocalhostFails == "localhost" \notin validCandidates(inv[1].view, job, now)

LoneRejected == inv'[1].pc = "REJECTED" /\ inv'[1].err /\ inv'[1].ack.Msg = "Failed"

C28_OnlyLocalhostStep == (LoneDecides /\ LocalhostFails) => LoneRejected

\* C28 as stated: the view of the node started without peers has no key
\* but "localhost", and a job that meets a failing localhost is rejected.
C28_OnlyLocalhost ==
  [][C28_OnlyLocalhostStep]_vars /\ [](DOMAIN cluster[LoneNode] \subseteq {"localhost"})

C28_UnlistedStep ==
  (Senders(LoneNode) = {} /\ LoneDecides /\ LocalhostFails) => LoneRejected

\* C28, amended: if moreover no other node has the node in its peer list,
\* "localhost" is the only key of its view and a job that meets a failing
\* localhost is rejected.
C28_OnlyLocalhostWhenUnlisted ==
  /\ [][C28_UnlistedStep]_vars
  /\ [](Senders(LoneNode) = {} => DOMAIN cluster[LoneNode] \subseteq {"localhost"})

\* No node pushes to LoneNode; its view holds its own entry, loaded to the
\* clamp, and the job submitted to it has been rejected.
C28_Witness ==
  /\ Senders(LoneNode) = {}
  /\ DOMAIN cluster[LoneNode] = {"localhost"}
  /\ cluster[LoneNode]["localhost"].Snapshot.Cpu = CpuClamp
  /\ inv # <<>>
  /\ inv[1].pc = "REJECTED"
  /\ inv[1].ack.Msg = "Failed"

(***************************************************************************)
(* C29. Claim: on a node started with an empty peer set whose local load   *)
(* leaves headroom for the job (cpu + req_cpu < 95 and mem + req_mem <     *)
(* 90), a job submitted to the running node is executed on "localhost" and *)
(* acknowledged with msg = "Completed Successfully" and forwarded_to =     *)
(* "localhost", provided the executor succeeds.                            *)
(***************************************************************************)
\* The load of the Local Snapshot leaves headroom for the job.
Headroom ==
  /\ cpuOk(protoData(Read(localSnap[LoneNode])), job)
  /\ memOk(protoData(Read(localSnap[LoneNode])), job)

RunsOnLocalhost == inv'[1].pc = "EXECUTING" /\ inv'[1].sel = "localhost"

AckOfLocalRun ==
  (inv # <<>> /\ inv[1].pc = "DONE" /\ inv[1].sel = "localhost") =>
    inv[1].ack = [Msg |-> "Completed Successfully", ForwardedTo |-> "localhost"]

C29_HeadroomStep == (LoneDecides /\ Headroom) => RunsOnLocalhost

\* C29 as stated: with headroom in the local load the job is dispatched to
\* the executor of the node, and a run that succeeds is acknowledged with
\* "Completed Successfully" and "localhost".
C29_HeadroomRunsOnLocalhost == [][C29_HeadroomStep]_vars /\ []AckOfLocalRun

C29_EntryStep ==
  (Senders(LoneNode) = {} /\ LoneDecides /\ ~LocalhostFails) => RunsOnLocalhost

\* C29, what the node does: when no other node pushes to it and the copy
\* of its view holds a localhost entry that passes the filter, the job is
\* dispatched to its executor, and a run that succeeds is acknowledged with
\* "Completed Successfully" and "localhost".
C29_ListedEntryRunsOnLocalhost == [][C29_EntryStep]_vars /\ []AckOfLocalRun

\* The job submitted to the node that no one pushes to has run on it and
\* has been acknowledged.
C29_Witness ==
  /\ Senders(LoneNode) = {}
  /\ inv # <<>>
  /\ inv[1].pc = "DONE"
  /\ inv[1].sel = "localhost"
  /\ inv[1].container = "exited"
  /\ inv[1].ack = [Msg |-> "Completed Successfully", ForwardedTo |-> "localhost"]

(***************************************************************************)
(* C30. Claim: when no admitted candidate is thermally safe, the scheduler *)
(* falls back to WARM nodes that still have capacity: the node it selects  *)
(* has temp_status WARM and passes the capacity filter.                    *)
(***************************************************************************)
\* scheduleJob on SchedNode has selected a node from a fallback pool: some
\* candidates were admitted and none of them was thermally safe.
FellBack ==
  /\ Decided(inv[1])
  /\ inv[1].valid # {}
  /\ inv[1].safe = {}

\* The entry of the selected node in the view the decision was taken on.
SelectedEntry == cluster[SchedNode][inv[1].sel]

\* The capacity filter, written out.
HasCapacity(m) ==
  /\ m.Cpu + job.ReqCpu < CpuLimit
  /\ m.Mem + job.ReqMem < MemLimit

\* C30 as stated: the node selected from a fallback pool is WARM and has
\* capacity.
C30_FallbackSelectsWarm ==
  FellBack =>
    /\ SelectedEntry.Snapshot.TempStatus = "WARM"
    /\ HasCapacity(SelectedEntry.Snapshot)

\* C30, what the scheduler does: the node selected from a fallback pool is
\* any admitted candidate; it is live and has capacity, and its status is
\* WARM or HOT.
C30_FallbackSelectsAdmitted ==
  FellBack =>
    /\ inv[1].sel \in inv[1].valid
    /\ Live(SelectedEntry, now)
    /\ HasCapacity(SelectedEntry.Snapshot)
    /\ SelectedEntry.Snapshot.TempStatus \in {"WARM", "HOT"}

\* A HOT node has been selected from a fallback pool that held a WARM
\* candidate too.
C30_Witness ==
  /\ FellBack
  /\ SelectedEntry.Snapshot.TempStatus = "HOT"
  /\ \E ip \in inv[1].valid : cluster[SchedNode][ip].Snapshot.TempStatus = "WARM"

(***************************************************************************)
(* C31. On receipt of the stop signal the peer main loop returns and the   *)
(* cleanup of each of the three producers is invoked exactly once; the     *)
(* shutdown path does not cancel forwarded jobs that are already in        *)
(* flight.                                                                 *)
(***************************************************************************)
\* The node n gets the stop signal in this step.
Stops(n) == boot[n].pc = "loop" /\ boot'[n].pc = "exited"

C31_StopStep ==
  \A n \in Nodes :
    Stops(n) =>
      /\ \A c \in DOMAIN boot[n].cleaned : boot'[n].cleaned[c] = boot[n].cleaned[c] + 1
      /\ inv' = inv

\* C31: the step of the stop signal ends the loop, runs each of the three
\* cleanups once (and none is ever run twice), and changes no SubmitJob
\* handler, on this node or on another.
C31_StopCleansOnceCancelsNothing ==
  /\ [][C31_StopStep]_vars
  /\ [](\A n \in Nodes :
          /\ \A c \in DOMAIN boot[n].cleaned : boot[n].cleaned[c] <= 1
          /\ (boot[n].pc = "exited" /\ boot[n].failed = {} =>
                \A c \in DOMAIN boot[n].cleaned : boot[n].cleaned[c] = 1))

\* The node that forwarded the job has stopped with its three cleanups run
\* once, its handler still waiting for the reply; the remote handler has
\* run the container to its end.
C31_Witness ==
  /\ boot[RunNode].pc = "exited"
  /\ \A c \in DOMAIN boot[RunNode].cleaned : boot[RunNode].cleaned[c] = 1
  /\ Len(inv) >= 2
  /\ inv[1].pc = "FORWARDING"
  /\ inv[2].pc = "DONE"
  /\ inv[2].container = "exited"
  /\ boot[inv[2].node].pc = "loop"

(***************************************************************************)
(* C32. At any instant an entry is shown as OFFLINE by the display exactly *)
(* when the scheduler's liveness filter would exclude it (age > NodeTTL,   *)
(* with the same NodeTTL used by both), and such an entry is still present *)
(* in the Cluster View.                                                    *)
(***************************************************************************)
\* The rows displayCluster prints on node n now.
Rows(n) == displayCluster(Snapshot(cluster[n]), now)

\* C32: on every node the display has one row per key of the Cluster View,
\* and the row says OFFLINE exactly when the liveness test of the filter
\* fails for the entry.
C32_OfflineIffExcluded ==
  \A n \in Nodes :
    /\ DOMAIN Rows(n) = DOMAIN cluster[n]
    /\ \A ip \in DOMAIN cluster[n] :
         (Rows(n)[ip].status = "OFFLINE") <=> ~Live(cluster[n][ip], now)

\* The entry of a peer is older than NodeTTL: it is in the view, shown
\* OFFLINE with its age and excluded by the filter, while the node's own
\* entry is shown ONLINE.
C32_Witness ==
  \E n \in Nodes : \E ip \in DOMAIN cluster[n] :
    /\ "localhost" \in DOMAIN cluster[n]
    /\ Rows(n)["localhost"].status = "ONLINE"
    /\ Rows(n)[ip] = [status |-> "OFFLINE", age |-> NodeTTL + 1]
    /\ ip \notin validCandidates(Snapshot(cluster[n]), IMG_RESIZE, now)
    /\ cpuOk(cluster[n][ip].Snapshot, IMG_RESIZE)

(***************************************************************************)
(* C33. Every SubmitJob invocation at a node follows RECEIVED ->           *)
(* FILTERING -> one of {REJECTED | SELECTED_LOCAL -> EXECUTING -> DONE or  *)
(* EXEC_FAILED | SELECTED_REMOTE -> FORWARDING -> DONE or FORWARD_FAILED}  *)
(* and ends in exactly one terminal state; an invocation in FORWARDING     *)
(* reaches DONE or FORWARD_FAILED within JobForwardTimeout whatever the    *)
(* remote node does. (In the model a local selection is in EXECUTING at    *)
(* once, and a remote selection is in DIALING until the connection is      *)
(* made.)                                                                  *)
(***************************************************************************)
AllowedMoves ==
  { <<"RECEIVED", "FILTERING">>,
    <<"FILTERING", "REJECTED">>, <<"FILTERING", "EXECUTING">>, <<"FILTERING", "DIALING">>,
    <<"EXECUTING", "DONE">>, <<"EXECUTING", "EXEC_FAILED">>,
    <<"DIALING", "FORWARDING">>, <<"DIALING", "FORWARD_FAILED">>,
    <<"FORWARDING", "DONE">>, <<"FORWARDING", "FORWARD_FAILED">> }

C33_MoveStep ==
  /\ \A i \in DOMAIN inv :
       /\ i \in DOMAIN inv'
       /\ inv'[i].pc = inv[i].pc \/ <<inv[i].pc, inv'[i].pc>> \in AllowedMoves
       /\ (inv[i].pc \in Terminal => inv'[i] = inv[i])
  /\ \A i \in DOMAIN inv' \ DOMAIN inv : inv'[i].pc = "RECEIVED"

Forwarding(i) == i \in DOMAIN inv /\ inv[i].pc \in {"DIALING", "FORWARDING"}
ForwardEnded(i) == i \in DOMAIN inv /\ inv[i].pc \in {"DONE", "FORWARD_FAILED"}

C34_DialBoundedByTwoSeconds ==
  \A i \in DOMAIN inv :
    (Alive(i) /\ inv[i].pc = "DIALING") =>
      now - (inv[i].deadline - JobForwardTimeout) <= 2

\* C34, what holds: the dial and the call share the one context of
\* JobForwardTimeout made on entry to forwardJobToPeer, so a forward to an
\* unreachable peer ends with ForwardFailure by that deadline and not by an
\* earlier one.
C34_ContextMade ==
  \A i \in DOMAIN inv :
    (i \in DOMAIN inv' /\ inv[i].pc = "FILTERING" /\ inv'[i].pc = "DIALING") =>
      inv'[i].deadline = now + JobForwardTimeout
C34_DialBoundedByForwardTimeout ==
  /\ [][C34_ContextMade]_vars
  /\ [](\A i \in DOMAIN inv : InForward(i) => now <= inv[i].deadline)

C34_Witness ==
  /\ Len(inv) = 1
  /\ inv[1].pc = "FORWARD_FAILED"
  /\ inv[1].sel = "B"
  /\ ~boot["B"].serving
  /\ now = inv[1].deadline
  /\ now >= JobForwardTimeout

\* C35: no hop count is carried. The handler that a forward starts at the
\* selected node is the handler of a new submission (it holds nothing of the
\* path of the job, and the job is passed on unchanged), and a handler that
\* has chosen a peer can send the job there whether or not the job has been
\* at that node before: only the length of the chain kept here ends a run.
C35_NewSubmission ==
  Len(inv') > Len(inv) =>
    /\ Len(inv') = Len(inv) + 1
    /\ inv'[Len(inv')] = Received(inv'[Len(inv')].node)
    /\ (inv # <<>> => inv'[Len(inv')].node = inv[Len(inv)].sel /\ job' = job)
C35_NoHopCount ==
  /\ [][C35_NewSubmission]_vars
  /\ [](\A i \in DOMAIN inv :
          (inv[i].pc = "DIALING" /\ inv[i].sel \in Nodes /\ Len(inv) < MaxHops)
            => ENABLED ForwardSend(i))

C35_Witness ==
  /\ Len(inv) >= 4
  /\ inv[1].node = "A" /\ inv[2].node = "B"
  /\ inv[3].node = "A" /\ inv[4].node = "B"
  /\ \A i \in 1..3 : inv[i].pc = "FORWARDING"
  /\ inv[4].pc \in {"DIALING", "FORWARDING"}
  /\ inv[4].sel = "A"

\* C36: when the call of a forward ends with the deadline of its context,
\* the forwarding handler returns ForwardFailure (an error and no runner) and
\* the handlers further down the chain are left as they were; the remote
\* handler, its process alive, can go on with its view, its decision and
\* every step of its container whatever has become of its caller.
C36_TimeoutStep ==
  \A i \in DOMAIN inv :
    (inv[i].pc = "FORWARDING" /\ inv'[i].pc = "FORWARD_FAILED") =>
      /\ inv'[i].err /\ inv'[i].target = ""
      /\ Len(inv') = Len(inv)
      /\ \A k \in DOMAIN inv : k # i => inv'[k] = inv[k]
C36_RemoteGoesOn ==
  \A i \in DOMAIN inv :
    (i > 1 /\ Alive(i) /\ inv[i - 1].pc = "FORWARD_FAILED") =>
      /\ inv[i].pc = "RECEIVED" => ENABLED (Alive(i) /\ TakeView(i))
      /\ inv[i].pc = "FILTERING" => ENABLED fwdSchedule(i)
      /\ inv[i].pc = "EXECUTING" => ENABLED (Alive(i) /\ ExecStep(i, TRUE))
C36_RemoteOutlivesForward == [][C36_TimeoutStep]_vars /\ []C36_RemoteGoesOn

C36_Witness ==
  /\ Len(inv) = 2
  /\ inv[1].pc = "FORWARD_FAILED"
  /\ now > inv[1].deadline
  /\ Alive(2)
  /\ inv[2].pc = "EXECUTING"
  /\ inv[2].step = "wait"
  /\ inv[2].container = "running"
  /\ ENABLED (Alive(2) /\ ExecStep(2, TRUE))

\* C37: scheduling reserves no capacity. No step of a handler changes the
\* Cluster View or the Local Snapshot of any node, and every handler of a
\* node that has decided was admitted against the view as it stands, however
\* many other handlers have chosen the same node before and are running
\* there: two handlers of one node have the same admitted candidates.
C37_Decided(i) == i \in DOMAIN inv /\ inv[i].pc \notin {"RECEIVED", "FILTERING"}
C37_SameSnapshot ==
  \A i, k \in DOMAIN inv :
    (C37_Decided(i) /\ C37_Decided(k) /\ inv[i].node = inv[k].node) =>
      /\ inv[i].valid = inv[k].valid
      /\ inv[i].valid = validCandidates(cluster[inv[i].node], job, now)
C37_NoReservation ==
  /\ [][cluster' = cluster /\ localSnap' = localSnap]_vars
  /\ []C37_SameSnapshot

\* Node A has sent one request to B, B has admitted it and a second request
\* of its own, both containers run on B, and the headroom that A and B hold
\* for B fits one request only.
C37_Witness ==
  /\ Len(inv) >= 3
  /\ inv[1].node = "A" /\ inv[1].pc = "FORWARDING" /\ inv[1].sel = "B"
  /\ inv[2].node = "B" /\ inv[2].pc = "EXECUTING" /\ inv[2].container = "running"
  /\ inv[3].node = "B" /\ inv[3].pc = "EXECUTING" /\ inv[3].container = "running"
  /\ cpuOk(cluster["B"]["localhost"].Snapshot, job)
  /\ cluster["B"]["localhost"].Snapshot.Cpu + 2 * job.ReqCpu >= CpuLimit
  /\ cluster["A"]["B"].Snapshot.Cpu + 2 * job.ReqCpu >= CpuLimit

\* C38: the claim that every value the CPU producer sends lies in [0, 100].
C38_EmittedWithinPercent == cpuOut.sent > 0 => (cpuOut.v >= 0 /\ cpuOut.v <= 100)

\* C38, what holds: a value sent is not negative, and the growth it stands
\* for is at most the CPU time of all cores since the collector started,
\* not that of one poll interval.
C38_EmittedWithinElapsed ==
  cpuOut.sent > 0 =>
    /\ cpuOut.v >= 0
    /\ cpuOut.v * scaledIntervalNS <= 100 * NumCPUs * now

\* A process has been on one core for more than a poll interval and leaves
\* it in the second interval while the other core was busy as well: the
\* second value sent is above 100.
C38_Witness ==
  /\ cpuOut.sent = 2
  /\ now = 2 * IntervalNS
  /\ cpuOut.v > 100
  /\ \A pid \in Pids : pid \in DOMAIN lastCPU /\ lastCPU[pid] <= now

\* C39: from its first gossip tick on, a node holds a "localhost" entry that
\* is never older than the gossip interval, which is below NodeTTL, so the
\* liveness test of a scheduling decision made on a copy of the view keeps
\* it; before the first tick there is no "localhost" entry, and a handler
\* whose copy has none does not place the job on its own node.
FirstTickServed(n) == nextTick[n] > GossipInterval
C39_EntryFresh ==
  \A n \in Nodes :
    IF FirstTickServed(n)
    THEN /\ "localhost" \in DOMAIN cluster[n]
         /\ now - cluster[n]["localhost"].LastSeen <= GossipInterval
         /\ GossipInterval < NodeTTL
         /\ Live(cluster[n]["localhost"], now)
    ELSE "localhost" \notin DOMAIN cluster[n]
C39_DecisionStep ==
  \A i \in DOMAIN inv :
    /\ (inv[i].pc = "RECEIVED" /\ i \in DOMAIN inv' /\ inv'[i].pc = "FILTERING"
          /\ "localhost" \in DOMAIN inv'[i].view) =>
         \/ "localhost" \in validCandidates(inv'[i].view, job, now)
         \/ ~cpuOk(inv'[i].view["localhost"].Snapshot, job)
         \/ ~memOk(inv'[i].view["localhost"].Snapshot, job)
    /\ (inv[i].pc = "FILTERING" /\ "localhost" \notin DOMAIN inv[i].view) =>
         (inv'[i].sel # "localhost" /\ inv'[i].pc # "EXECUTING")
C39_LocalhostNeverStale == [][C39_DecisionStep]_vars /\ []C39_EntryFresh

\* Just before its second tick the node runs a job on itself, selected on
\* a "localhost" entry that is one gossip interval old.
C39_Witness ==
  /\ now = 2 * GossipInterval
  /\ nextTick[LoneNode] = now
  /\ cluster[LoneNode]["localhost"].LastSeen = GossipInterval
  /\ inv # <<>>
  /\ inv[1].node = LoneNode
  /\ inv[1].pc = "EXECUTING"
  /\ inv[1].sel = "localhost"
  /\ "localhost" \in inv[1].valid

\* C40: a sendToPeer goroutine has ended when its deadline of PushTimeout is
\* over, answered or not; the deadline is shorter than the gossip interval,
\* so at any time at most one push per node and configured peer is in
\* flight, and the pushes in flight never outnumber the configured peers.
InFlight(n, p) == { m \in pushes : m.from = n /\ m.to = p }
C40_PushesBounded ==
  /\ PushTimeout < GossipInterval
  /\ \A m \in pushes :
       /\ now - m.sent <= PushTimeout
       /\ m.to \in broadcastMetrics(targetPeers(m.from))
  /\ \A n \in Nodes : \A p \in targetPeers(n) : Cardinality(InFlight(n, p)) <= 1

\* At its third tick a node has one push in flight to each of its peers,
\* the one that never answers included, and none left from earlier ticks.
C40_Witness ==
  /\ now = 2 * GossipInterval
  /\ \A p \in broadcastMetrics(targetPeers("A")) :
       /\ Cardinality(InFlight("A", p)) = 1
       /\ \A m \in InFlight("A", p) : m.sent = now
  /\ DownPeer \in broadcastMetrics(targetPeers("A"))

====
